---- MODULE Spec2Model ----
(***************************************************************************)
(* hono-autopenapi: static route extraction, folder-convention path        *)
(* composition and OpenAPI document assembly.                              *)
(*                                                                         *)
(* Strings are sequences of one-character strings, so that slicing,        *)
(* prefix tests and regular-expression replacement are computed the way    *)
(* the TypeScript code computes them.  An optional value (T | undefined)   *)
(* is a sequence of length 0 or 1.                                         *)
(***************************************************************************)
EXTENDS Integers, Sequences, FiniteSets, TLC

VARIABLES
    pc,        \* position of the analyzeToOpenAPI / CLI run
    cfg,       \* the run's options: autoroutesRoot, autorouterRoot
    fsys,      \* directories (absolute, as segment sequences) holding a middleware.ts
    files,     \* names of the files analysed so far, in glob order
    raw,       \* analyzeSource's records of those files, before path composition
    routes,    \* the flat RouteInfo sequence handed to routesToOpenAPI
    doc,       \* the assembled document's paths map
    fn,        \* path-function harness: the function applied last
    arg,       \* path-function harness: its arguments
    res,       \* path-function harness: its result
    opts,              \* mountDocs: the options it was called with
    cachedDocPromise,  \* mountDocs: null, or the promise of the cached build
    builds,            \* mountDocs: the promises started so far, in order
    requests           \* mountDocs: each request to the JSON endpoint

docsVars == <<opts, cachedDocPromise, builds, requests>>

vars == <<pc, cfg, fsys, files, raw, routes, doc, fn, arg, res, docsVars>>

(***************************************************************************)
(* Bounds of the model.                                                    *)
(***************************************************************************)
MaxFiles == 2

(***************************************************************************)
(* String primitives (JavaScript String methods used by the code).         *)
(***************************************************************************)
StartsWith(s, p) == Len(s) >= Len(p) /\ SubSeq(s, 1, Len(p)) = p

EndsWith(s, p) == Len(s) >= Len(p) /\ SubSeq(s, Len(s) - Len(p) + 1, Len(s)) = p

\* s.slice(n) for n >= 0
SliceFrom(s, n) == SubSeq(s, n + 1, Len(s))

\* s.slice(1, -1)
SliceInner(s) == SubSeq(s, 2, Len(s) - 1)

RECURSIVE Concat(_)
Concat(ss) == IF ss = <<>> THEN <<>> ELSE Head(ss) \o Concat(Tail(ss))

\* parts.join(sep)
RECURSIVE JoinWith(_, _)
JoinWith(parts, sep) ==
    IF parts = <<>> THEN <<>>
    ELSE IF Len(parts) = 1 THEN parts[1]
    ELSE parts[1] \o sep \o JoinWith(Tail(parts), sep)

\* s.split(c) for a one-character separator: empty pieces are kept
RECURSIVE SplitAcc(_, _, _)
SplitAcc(s, c, cur) ==
    IF s = <<>> THEN <<cur>>
    ELSE IF Head(s) = c THEN <<cur>> \o SplitAcc(Tail(s), c, <<>>)
    ELSE SplitAcc(Tail(s), c, Append(cur, Head(s)))

SplitBy(s, c) == SplitAcc(s, c, <<>>)

\* arr.filter(Boolean) on an array of strings: the empty strings go
FilterBoolean(parts) == SelectSeq(parts, LAMBDA x : x # <<>>)

\* s.replace(/\/+$/, '')
RECURSIVE StripTrailingSlashes(_)
StripTrailingSlashes(s) ==
    IF s # <<>> /\ s[Len(s)] = "/" THEN StripTrailingSlashes(SubSeq(s, 1, Len(s) - 1))
    ELSE s

\* s.replace(/^\/+/, '')
RECURSIVE StripLeadingSlashes(_)
StripLeadingSlashes(s) ==
    IF s # <<>> /\ Head(s) = "/" THEN StripLeadingSlashes(Tail(s))
    ELSE s

\* s.toLowerCase() on the letters the model uses
LowerChar(c) ==
    CASE c = "G" -> "g" [] c = "E" -> "e" [] c = "T" -> "t" [] c = "C" -> "c"
      [] OTHER -> c

ToLowerCase(s) == [i \in 1..Len(s) |-> LowerChar(s[i])]

\* the character class [A-Za-z0-9_]
WordChars ==
    {"a","b","c","d","e","f","g","h","i","j","k","l","m","n","o","p","q","r","s",
     "t","u","v","w","x","y","z","G","E","T","C","0","1","2","_"}

IsWordChar(c) == c \in WordChars

(***************************************************************************)
(* node:path on absolute, normalised POSIX paths.  An absolute path is the *)
(* sequence of its segments; a relative path is a string.                  *)
(***************************************************************************)
Slash == <<"/">>
DotDot == <<".", ".">>

\* path.dirname(p)
Dirname(p) == IF p = <<>> THEN <<>> ELSE SubSeq(p, 1, Len(p) - 1)

\* path.basename(p)
Basename(p) == IF p = <<>> THEN <<>> ELSE p[Len(p)]

RECURSIVE CommonLen(_, _)
CommonLen(a, b) ==
    IF a = <<>> \/ b = <<>> \/ Head(a) # Head(b) THEN 0
    ELSE 1 + CommonLen(Tail(a), Tail(b))

\* path.relative(from, to): one '..' for each segment of from below the
\* common ancestor, then the segments of to below it, joined by the separator
PathRelative(from, to) ==
    LET n == CommonLen(from, to)
        ups == [i \in 1..(Len(from) - n) |-> DotDot]
    IN JoinWith(ups \o SubSeq(to, n + 1, Len(to)), Slash)

RECURSIVE LastIndexOf(_, _)
LastIndexOf(s, c) ==
    IF s = <<>> THEN 0
    ELSE IF s[Len(s)] = c THEN Len(s)
    ELSE LastIndexOf(SubSeq(s, 1, Len(s) - 1), c)

\* path.parse(rel): dir is what precedes the last separator, name is the
\* base without its extension (the text from the last dot, unless the dot
\* is the first character of the base)
PathParse(rel) ==
    LET cut == LastIndexOf(rel, "/")
        base == SubSeq(rel, cut + 1, Len(rel))
        dot == LastIndexOf(base, ".")
    IN [dir |-> IF cut <= 1 THEN SubSeq(rel, 1, cut) ELSE SubSeq(rel, 1, cut - 1),
        base |-> base,
        name |-> IF dot > 1 THEN SubSeq(base, 1, dot - 1) ELSE base]

(***************************************************************************)
(* src/autoroutes.ts: Convention A ("grouped routes").                     *)
(***************************************************************************)
sRouteTs == <<"r","o","u","t","e",".","t","s">>
sRouteTsx == <<"r","o","u","t","e",".","t","s","x">>
sMiddlewareTs == <<"m","i","d","d","l","e","w","a","r","e",".","t","s">>

\* a variant that takes any base name beginning with route
isRouteFile_AnyRoute(filePath) == StartsWith(Basename(filePath), <<"r","o","u","t","e">>)

isRouteFile(filePath) ==
    Basename(filePath) = sRouteTs \/ Basename(filePath) = sRouteTsx

computeAutoroutePrefix(filePath, rootDirAbs) ==
    LET dir == Dirname(filePath)
        rel == PathRelative(rootDirAbs, dir)
    IN IF StartsWith(rel, DotDot) THEN <<>>
       ELSE IF rel = <<>> THEN <<Slash>>
       ELSE <<Slash \o JoinWith(FilterBoolean(SplitBy(rel, "/")), Slash)>>

normalizeLocal(local) ==
    IF local = <<>> THEN Slash
    ELSE IF StartsWith(local, Slash) THEN local
    ELSE Slash \o local

\* prefix is optional (string | undefined)
joinRoutePaths(prefix, local) ==
    IF prefix = <<>> \/ prefix[1] = Slash \/ prefix[1] = <<>> THEN normalizeLocal(local)
    ELSE LET p == StripTrailingSlashes(prefix[1])
             l == StripLeadingSlashes(local)
         IN IF l = <<>> \/ l = Slash THEN p ELSE p \o Slash \o l

\* the '/'-separated depth a.split('/').length that the scope sort compares
ScopeDepth(a) == Len(SplitBy(a, "/"))

\* Array.prototype.sort with a comparator is stable: insertion by depth
RECURSIVE InsertByDepth(_, _)
InsertByDepth(sorted, x) ==
    IF sorted = <<>> THEN <<x>>
    ELSE IF ScopeDepth(x) < ScopeDepth(Head(sorted)) THEN <<x>> \o sorted
    ELSE <<Head(sorted)>> \o InsertByDepth(Tail(sorted), x)

RECURSIVE SortByDepth(_)
SortByDepth(xs) ==
    IF xs = <<>> THEN <<>>
    ELSE InsertByDepth(SortByDepth(SubSeq(xs, 1, Len(xs) - 1)), xs[Len(xs)])

\* the walk of findMiddlewareScopes from cur up to stop; mw is the set of
\* directories in which fs.existsSync finds a middleware.ts
RECURSIVE WalkScopes(_, _, _, _)
WalkScopes(cur, stop, rootDirAbs, mw) ==
    LET rel == PathRelative(rootDirAbs, cur)
        prefix == IF rel # <<>>
                  THEN Slash \o JoinWith(FilterBoolean(SplitBy(rel, "/")), Slash)
                  ELSE Slash
        here == IF cur \in mw THEN <<prefix>> ELSE <<>>
        parent == Dirname(cur)
    IN IF cur = stop THEN here
       ELSE IF parent = cur THEN here
       ELSE IF StartsWith(PathRelative(stop, parent), DotDot) THEN here
       ELSE here \o WalkScopes(parent, stop, rootDirAbs, mw)

findMiddlewareScopes(filePath, rootDirAbs, mw) ==
    SortByDepth(WalkScopes(Dirname(filePath), rootDirAbs, rootDirAbs, mw))

(***************************************************************************)
(* src/autorouter.ts: Convention B ("folder router").                      *)
(***************************************************************************)
sGet == <<"g","e","t">>
sPost == <<"p","o","s","t">>
sPut == <<"p","u","t">>
sPatch == <<"p","a","t","c","h">>
sDelete == <<"d","e","l","e","t","e">>
sOptions == <<"o","p","t","i","o","n","s">>
sHead == <<"h","e","a","d">>
sIndex == <<"i","n","d","e","x">>

METHOD_NAMES == {sGet, sPost, sPut, sPatch, sDelete, sOptions, sHead}

\* TRUE when isMethodFile returns a method name, FALSE when it returns undefined
isMethodFile(baseName) == ToLowerCase(baseName) \in METHOD_NAMES

\* mutant: the rest marker '...' is left in the name
convertSegment_KeepsRestDots(s) ==
    IF StartsWith(s, <<"[">>) /\ EndsWith(s, <<"]">>)
    THEN <<":">> \o SliceInner(s)
    ELSE s

convertSegment(s) ==
    IF StartsWith(s, <<"[">>) /\ EndsWith(s, <<"]">>)
    THEN LET n1 == SliceInner(s)
             n2 == IF StartsWith(n1, <<".", ".", ".">>) THEN SliceFrom(n1, 3) ELSE n1
             n3 == IF StartsWith(n2, <<"[">>) /\ EndsWith(n2, <<"]">>)
                   THEN SliceInner(n2) ELSE n2
         IN <<":">> \o n3
    ELSE s

\* mutant: the file's base name is pushed after the segments were converted
computeAutorouterPath_RawBase(rootDirAbs, fileAbs) ==
    LET rel == PathRelative(rootDirAbs, fileAbs)
        parsed == PathParse(rel)
        dirSegs == FilterBoolean(SplitBy(parsed.dir, "/"))
        base == parsed.name
        converted == [i \in 1..Len(dirSegs) |-> convertSegment(dirSegs[i])]
        pathSegs == IF ~isMethodFile(base) /\ base # sIndex
                    THEN Append(converted, base) ELSE converted
    IN IF StartsWith(rel, DotDot) THEN <<>>
       ELSE <<Slash \o JoinWith(FilterBoolean(pathSegs), Slash)>>

computeAutorouterPath(rootDirAbs, fileAbs) ==
    LET rel == PathRelative(rootDirAbs, fileAbs)
        parsed == PathParse(rel)
        dirSegs == FilterBoolean(SplitBy(parsed.dir, "/"))
        base == parsed.name
        segs == IF ~isMethodFile(base) /\ base # sIndex
                THEN Append(dirSegs, base) ELSE dirSegs
        pathSegs == [i \in 1..Len(segs) |-> convertSegment(segs[i])]
        joined == Slash \o JoinWith(FilterBoolean(pathSegs), Slash)
    IN IF StartsWith(rel, DotDot) THEN <<>>
       ELSE <<IF joined = <<>> THEN Slash ELSE joined>>

(***************************************************************************)
(* Strings the model feeds to the code: directory and file names of the    *)
(* examples (examples/routes/users/route.ts, examples/autorouter/blog/[id]) *)
(* and registered paths with every placement of slashes.                   *)
(***************************************************************************)
sApp == <<"a","p","p">>
sLib == <<"l","i","b">>
sUsers == <<"u","s","e","r","s">>
sBlog == <<"b","l","o","g">>
sDocs == <<"d","o","c","s">>
sOpt == <<"o","p","t">>
sId == <<"i","d">>
sSlug == <<"s","l","u","g">>
sBrId == <<"[","i","d","]">>
sBrRestSlug == <<"[",".",".",".","s","l","u","g","]">>
sBrBrRestSlug == <<"[","[",".",".",".","s","l","u","g","]","]">>
sBrRestId == <<"[",".",".",".","i","d","]">>
sBrBrRestId == <<"[","[",".",".",".","i","d","]","]">>
sBrSlug == <<"[","s","l","u","g","]">>
sIndexTs == <<"i","n","d","e","x",".","t","s">>
sGetTs == <<"g","e","t",".","t","s">>
sUpperGetTs == <<"G","E","T",".","t","s">>
sPostTs == <<"p","o","s","t",".","t","s">>
sAboutTs == <<"a","b","o","u","t",".","t","s">>
sBrIdTs == <<"[","i","d","]",".","t","s">>
sBrRestSlugTs == <<"[",".",".",".","s","l","u","g","]",".","t","s">>
sUsersTs == <<"u","s","e","r","s",".","t","s">>
pRoot == <<"/">>
pUsers == <<"/","u","s","e","r","s">>
pUsersSlash == <<"/","u","s","e","r","s","/">>
pBlogId == <<"/","b","l","o","g","/",":","i","d">>
pBlogIdSlashes == <<"/","b","l","o","g","/",":","i","d","/","/">>
lEmpty == <<>>
lSlash == <<"/">>
lId == <<"/",":","i","d">>
lIdBare == <<":","i","d">>
lSlashSlashX == <<"/","/","x">>
lX == <<"x">>
lXSlash == <<"/","x","/">>
lSlashSlash == <<"/","/">>
lPing == <<"/","p","i","n","g">>
lUsersId == <<"/","u","s","e","r","s","/",":","i","d">>
lAB == <<"/",":","a","/",":","b">>

(***************************************************************************)
(* Inputs of the path functions.                                           *)
(***************************************************************************)
MaxDepth == 2
MaxSlashes == 2

RootDir == <<sApp>>
Roots == {RootDir, <<sApp, sBlog>>}

PlainNames == {sId, sSlug, sUsers, sBlog}
Bracket(n) == <<"[">> \o n \o <<"]">>
BracketRest(n) == <<"[", ".", ".", ".">> \o n \o <<"]">>
BracketOptRest(n) == <<"[", "[", ".", ".", ".">> \o n \o <<"]", "]">>
Colon(n) == <<":">> \o n

DirNames == {sUsers, sBlog, sBrId, sBrRestSlug, sBrBrRestSlug}
FileNames == {sIndexTs, sGetTs, sUpperGetTs, sPostTs, sAboutTs, sBrIdTs, sBrRestSlugTs,
              sRouteTs}

RECURSIVE SeqsUpTo(_, _)
SeqsUpTo(S, n) ==
    IF n = 0 THEN {<<>>}
    ELSE LET shorter == SeqsUpTo(S, n - 1)
         IN shorter \cup {Append(q, x) : q \in shorter, x \in S}

\* absolute paths of files: /app/<dirs>/<file> and /lib/<dirs>/<file>
HarnessFiles ==
    {<<top>> \o d \o <<f>> : top \in {sApp, sLib}, d \in SeqsUpTo(DirNames, MaxDepth),
                              f \in FileNames}

Segments ==
    DirNames \cup {Bracket(n) : n \in PlainNames} \cup {BracketRest(n) : n \in PlainNames}
             \cup {BracketOptRest(n) : n \in PlainNames}

RECURSIVE Slashes(_)
Slashes(n) == IF n = 0 THEN <<>> ELSE Slash \o Slashes(n - 1)

JoinPrefixes ==
    {Slash} \cup {q \o Slashes(n) : q \in {pUsers, pBlogId}, n \in 0..MaxSlashes}

JoinLocals ==
    {Slashes(n) \o b : n \in 0..MaxSlashes, b \in {lEmpty, lX, lIdBare, <<"x", "/">>}}

(***************************************************************************)
(* The path functions applied one at a time.                               *)
(***************************************************************************)
IdleRun ==
    /\ pc = "idle" /\ cfg = [autoroutesRoot |-> <<>>, autorouterRoot |-> <<>>]
    /\ fsys = {} /\ files = <<>> /\ raw = <<>> /\ routes = <<>> /\ doc = <<>>

\* mountDocs was not called
IdleDocs == opts = <<>> /\ cachedDocPromise = <<>> /\ builds = <<>> /\ requests = <<>>

IdlePath == fn = "none" /\ arg = <<>> /\ res = <<>> /\ IdleDocs

InitPath == IdleRun /\ IdlePath

ApplyConvertSegment ==
    \E s \in Segments :
        /\ fn = "none"
        /\ fn' = "convertSegment" /\ arg' = <<s>> /\ res' = convertSegment(s)
        /\ UNCHANGED <<docsVars, pc, cfg, fsys, files, raw, routes, doc>>

ApplyComputeAutorouterPath ==
    \E root \in Roots, f \in HarnessFiles :
        /\ fn = "none"
        /\ fn' = "computeAutorouterPath" /\ arg' = <<root, f>>
        /\ res' = computeAutorouterPath(root, f)
        /\ UNCHANGED <<docsVars, pc, cfg, fsys, files, raw, routes, doc>>

ApplyJoinRoutePaths ==
    \E prefix \in JoinPrefixes, local \in JoinLocals :
        /\ fn = "none"
        /\ fn' = "joinRoutePaths" /\ arg' = <<prefix, local>>
        /\ res' = joinRoutePaths(<<prefix>>, local)
        /\ UNCHANGED <<docsVars, pc, cfg, fsys, files, raw, routes, doc>>

NextPath == ApplyConvertSegment \/ ApplyComputeAutorouterPath \/ ApplyJoinRoutePaths

SpecPath == InitPath /\ [][NextPath]_vars

\* the file lies in the subtree of root
IsUnder(root, f) == Len(f) > Len(root) /\ SubSeq(f, 1, Len(root)) = root

\* the directory segments of f below root
DirsBelow(root, f) == SubSeq(f, Len(root) + 1, Len(f) - 1)

\* what the convention promises for a directory segment spelled n, [n] or [...n]
IsSimpleSegment(s) ==
    \/ \E n \in PlainNames : s \in {n, Bracket(n), BracketRest(n)}

ExpectedSegment(s) ==
    IF \E n \in PlainNames : s \in {Bracket(n), BracketRest(n)}
    THEN Colon(CHOOSE n \in PlainNames : s \in {Bracket(n), BracketRest(n)})
    ELSE s

IndexOrMethodFiles == {sIndexTs, sGetTs, sUpperGetTs, sPostTs}

\* C5: Convention B maps [id] to :id and [...slug] to :slug, a file named index
\* or after an HTTP method adds no segment (blog/[id]/get.ts is /blog/:id,
\* index.ts in the root is /), and a file outside the root gets no prefix.
InvC5 ==
    /\ fn = "convertSegment" =>
          \A n \in PlainNames :
              /\ arg[1] = Bracket(n) => res = Colon(n)
              /\ arg[1] = BracketRest(n) => res = Colon(n)
    /\ fn = "computeAutorouterPath" =>
          LET root == arg[1]
              f == arg[2]
              dirs == DirsBelow(root, f)
          IN /\ ~IsUnder(root, f) => res = <<>>
             /\ (/\ IsUnder(root, f)
                 /\ Basename(f) \in IndexOrMethodFiles
                 /\ \A i \in 1..Len(dirs) : IsSimpleSegment(dirs[i]))
                => res = <<Slash \o JoinWith([i \in 1..Len(dirs) |->
                                                ExpectedSegment(dirs[i])], Slash)>>
             /\ (root = RootDir /\ f = <<sApp, sBlog, sBrId, sGetTs>>) => res = <<pBlogId>>
             /\ (root = RootDir /\ f = <<sApp, sIndexTs>>) => res = <<pRoot>>

WitnessC5 ==
    /\ fn = "computeAutorouterPath"
    /\ arg = <<RootDir, <<sApp, sBlog, sBrId, sGetTs>>>>
    /\ res = <<pBlogId>>

\* C6 (as claimed): a doubly-bracketed [[...name]] converts to :name, as
\* [...name] does.
ClaimC6 ==
    fn = "convertSegment" =>
        \A n \in PlainNames : arg[1] = BracketOptRest(n) => res = Colon(n)

\* the segments of a composed path
PathSegments(q) == FilterBoolean(SplitBy(q, "/"))

IsPathFile(root, f) ==
    /\ IsUnder(root, f)
    /\ ~isMethodFile(PathParse(Basename(f)).name)
    /\ PathParse(Basename(f)).name # sIndex

\* C7 (as claimed): a file name that is neither index nor a method name is the
\* last segment of the path untransformed ([id].ts contributes [id]).
ClaimC7 ==
    (fn = "computeAutorouterPath" /\ IsPathFile(arg[1], arg[2])) =>
        /\ res # <<>>
        /\ PathSegments(res[1]) # <<>>
        /\ PathSegments(res[1])[Len(PathSegments(res[1]))] = PathParse(Basename(arg[2])).name

\* C7 (amended): a file name that is neither index nor a method name is
\* appended as the last segment and transformed exactly as a directory of the
\* same spelling is: <dir>/<name>.ts has the path of <dir>/<name>/index.ts,
\* so blog/[id].ts is /blog/:id.
InvC7 ==
    (fn = "computeAutorouterPath" /\ IsPathFile(arg[1], arg[2])) =>
        LET root == arg[1]
            f == arg[2]
            asDir == Dirname(f) \o <<PathParse(Basename(f)).name, sIndexTs>>
        IN /\ res = computeAutorouterPath(root, asDir)
           /\ (root = RootDir /\ f = <<sApp, sBlog, sBrIdTs>>) => res = <<pBlogId>>
           /\ (root = RootDir /\ f = <<sApp, sAboutTs>>)
                 => res = <<<<"/", "a", "b", "o", "u", "t">>>>

WitnessC7 ==
    /\ fn = "computeAutorouterPath"
    /\ arg = <<RootDir, <<sApp, sBlog, sBrIdTs>>>>
    /\ res = <<pBlogId>>

\* C9 (as claimed): joinRoutePaths yields a path that starts with '/', has
\* exactly one '/' between the prefix and the local path whatever slashes
\* they end and begin with, and is the prefix alone (without trailing slash,
\* '/' for the root prefix) when the local path is empty or '/'.
ClaimC9 ==
    fn = "joinRoutePaths" =>
        LET p == StripTrailingSlashes(arg[1])
            l == StripLeadingSlashes(arg[2])
        IN /\ StartsWith(res, Slash)
           /\ l = <<>> => res = (IF p = <<>> THEN Slash ELSE p)
           /\ l # <<>> => res = p \o Slash \o l

(***************************************************************************)
(* The TypeScript type oracle (ts.TypeChecker), as the analyzer queries    *)
(* it.  A type is an index into TypeTable; flags are ts.TypeFlags.         *)
(***************************************************************************)
sUser == <<"u","s","e","r">>
sOk == <<"o","k">>
sError == <<"e","r","r","o","r">>
sName == <<"n","a","m","e">>
sAge == <<"a","g","e">>
sPostId == <<"p","o","s","t","I","d">>
sValue == <<"v","a","l","u","e">>
sNext == <<"n","e","x","t">>
sChildren == <<"c","h","i","l","d","r","e","n">>
sFirst == <<"f","i","r","s","t">>
sSecond == <<"s","e","c","o","n","d">>
sPage == <<"p","a","g","e">>
sSize == <<"s","i","z","e">>
sSort == <<"s","o","r","t">>
sQ == <<"q">>
sDone == <<"d","o","n","e">>
sTags == <<"t","a","g","s">>
sMeta == <<"m","e","t","a">>
sWhen == <<"w","h","e","n">>
sNote == <<"n","o","t","e">>
sQuoted == <<"q","u","o","t","e","d">>

Ty(flags, members, index, props, value, str) ==
    [flags |-> flags, members |-> members, index |-> index, props |-> props,
     value |-> value, str |-> str]

Prop(name, optional, ty) == [name |-> name, optional |-> optional, ty |-> ty]

tString == "string"
tNumber == "number"
tFalse == "falseLit"
tTrue == "trueLit"
tBoolean == "boolean"
tUndefined == "undefinedType"
tNull == "nullType"
tAny == "any"
tUserObj == "userObj"
tOkObj == "okObj"
tErrorObj == "errorObj"
t200 == "n200"
t422 == "n422"
t400 == "n400"
tErrStatus == "errStatus"
tOptNumber == "optNumber"
tUserType == "userType"
tStringArray == "stringArray"
tPostIdObj == "postIdObj"
tUnknown == "unknown"
tOptString == "optString"
tNullableString == "nullableString"
tNullishString == "nullishString"
tOptBoolean == "optBoolean"
tOptUserObj == "optUserObj"
tStringOrNumber == "stringOrNumber"
tNodeObj == "nodeObj"
tOptNode == "optNode"
tTreeObj == "treeObj"
tTreeArray == "treeArray"
tAObj == "aObj"
tBObj == "bObj"
tLeafObj == "leafObj"
tPairObj == "pairObj"
tNestedArray == "nestedArray"
tJson == "json"
tJsonArray == "jsonArray"
tPageQuery == "pageQuery"
tSearchQuery == "searchQuery"

TypeTable ==
    [string |-> Ty({"String"}, <<>>, <<>>, <<>>, 0, "string"),
      number |-> Ty({"Number"}, <<>>, <<>>, <<>>, 0, "number"),
      falseLit |-> Ty({"BooleanLiteral"}, <<>>, <<>>, <<>>, 0, "false"),
      trueLit |-> Ty({"BooleanLiteral"}, <<>>, <<>>, <<>>, 0, "true"),
      \* boolean is the union false | true
      boolean |-> Ty({"Boolean", "Union"}, <<tFalse, tTrue>>, <<>>, <<>>, 0, "boolean"),
      undefinedType |-> Ty({"Undefined"}, <<>>, <<>>, <<>>, 0, "undefined"),
      nullType |-> Ty({"Null"}, <<>>, <<>>, <<>>, 0, "null"),
      any |-> Ty({"Any"}, <<>>, <<>>, <<>>, 0, "any"),
      \* { user: string }
      userObj |-> Ty({"Object"}, <<>>, <<>>, <<Prop(sUser, FALSE, tString)>>, 0,
                    "{ user: string; }"),
      \* { ok: boolean }
      okObj |-> Ty({"Object"}, <<>>, <<>>, <<Prop(sOk, FALSE, tBoolean)>>, 0, "{ ok: boolean; }"),
      \* { error: string }
      errorObj |-> Ty({"Object"}, <<>>, <<>>, <<Prop(sError, FALSE, tString)>>, 0,
                     "{ error: string; }"),
      n200 |-> Ty({"NumberLiteral"}, <<>>, <<>>, <<>>, 200, "200"),
      n422 |-> Ty({"NumberLiteral"}, <<>>, <<>>, <<>>, 422, "422"),
      n400 |-> Ty({"NumberLiteral"}, <<>>, <<>>, <<>>, 400, "400"),
      \* 400 | 422
      errStatus |-> Ty({"Union"}, <<t400, t422>>, <<>>, <<>>, 0, "400 | 422"),
      \* number | undefined
      optNumber |-> Ty({"Union"}, <<tUndefined, tNumber>>, <<>>, <<>>, 0, "number | undefined"),
      \* type User = { id: string; name: string; age?: number }
      userType |-> Ty({"Object"}, <<>>, <<>>,
         <<Prop(sId, FALSE, tString), Prop(sName, FALSE, tString),
           Prop(sAge, TRUE, tOptNumber)>>, 0, "User"),
      \* string[]
      stringArray |-> Ty({"Object"}, <<>>, <<tString>>, <<>>, 0, "string[]"),
      \* { postId: string }
      postIdObj |-> Ty({"Object"}, <<>>, <<>>, <<Prop(sPostId, FALSE, tString)>>, 0,
         "{ postId: string; }"),
      \* a function type: (c: Context) => Response
      unknown |-> Ty({"Object"}, <<>>, <<>>, <<>>, 0, "(c: Context) => Response"),
      \* string | undefined, string | null, string | null | undefined
      optString |-> Ty({"Union"}, <<tUndefined, tString>>, <<>>, <<>>, 0, "string | undefined"),
      nullableString |-> Ty({"Union"}, <<tNull, tString>>, <<>>, <<>>, 0, "string | null"),
      nullishString |-> Ty({"Union"}, <<tUndefined, tNull, tString>>, <<>>, <<>>, 0,
                          "string | null | undefined"),
      \* boolean | undefined: the members are undefined, false and true
      optBoolean |-> Ty({"Union"}, <<tUndefined, tFalse, tTrue>>, <<>>, <<>>, 0,
                       "boolean | undefined"),
      \* { user: string } | undefined
      optUserObj |-> Ty({"Union"}, <<tUndefined, tUserObj>>, <<>>, <<>>, 0,
                       "{ user: string; } | undefined"),
      \* string | number
      stringOrNumber |-> Ty({"Union"}, <<tString, tNumber>>, <<>>, <<>>, 0, "string | number"),
      \* type Node = { value: string; next?: Node }
      nodeObj |-> Ty({"Object"}, <<>>, <<>>,
                    <<Prop(sValue, FALSE, tString), Prop(sNext, TRUE, tOptNode)>>, 0, "Node"),
      optNode |-> Ty({"Union"}, <<tUndefined, tNodeObj>>, <<>>, <<>>, 0, "Node | undefined"),
      \* type Tree = { children: Tree[] }
      treeObj |-> Ty({"Object"}, <<>>, <<>>, <<Prop(sChildren, FALSE, tTreeArray)>>, 0, "Tree"),
      treeArray |-> Ty({"Object"}, <<>>, <<tTreeObj>>, <<>>, 0, "Tree[]"),
      \* type A = { next: B }; type B = { next: A }
      aObj |-> Ty({"Object"}, <<>>, <<>>, <<Prop(sNext, FALSE, tBObj)>>, 0, "A"),
      bObj |-> Ty({"Object"}, <<>>, <<>>, <<Prop(sNext, FALSE, tAObj)>>, 0, "B"),
      \* type Leaf = { value: string }; type Pair = { first: Leaf; second: Leaf }
      leafObj |-> Ty({"Object"}, <<>>, <<>>, <<Prop(sValue, FALSE, tString)>>, 0, "Leaf"),
      pairObj |-> Ty({"Object"}, <<>>, <<>>,
                    <<Prop(sFirst, FALSE, tLeafObj), Prop(sSecond, FALSE, tLeafObj)>>, 0, "Pair"),
      \* type Nested = Nested[]
      nestedArray |-> Ty({"Object"}, <<>>, <<tNestedArray>>, <<>>, 0, "Nested"),
      \* type Json = string | Json[]
      json |-> Ty({"Union"}, <<tString, tJsonArray>>, <<>>, <<>>, 0, "Json"),
      jsonArray |-> Ty({"Object"}, <<>>, <<tJson>>, <<>>, 0, "Json[]"),
      \* type Q = { page?: string }
      pageQuery |-> Ty({"Object"}, <<>>, <<>>, <<Prop(sPage, TRUE, tOptString)>>, 0, "Q"),
      \* type Search = { page: number; size?: number }
      searchQuery |-> Ty({"Object"}, <<>>, <<>>,
         <<Prop(sPage, FALSE, tNumber), Prop(sSize, TRUE, tOptNumber)>>, 0, "Search")]

HasFlag(t, fs) == TypeTable[t].flags \cap fs # {}

isBooleanType(t) == HasFlag(t, {"Boolean", "BooleanLiteral"})
isNumberType(t) == HasFlag(t, {"Number", "NumberLiteral", "Enum"})
isStringType(t) == HasFlag(t, {"String", "StringLiteral"})
isNullish(t) == HasFlag(t, {"Undefined", "Null"})

(***************************************************************************)
(* Schemas (JSON Schema objects).  A key that is absent in the JavaScript  *)
(* object has the empty value here.  properties is the key-ordered list of *)
(* the properties object, present when hasProperties.                      *)
(***************************************************************************)
NoSchema ==
    [type |-> "", hasProperties |-> FALSE, properties |-> <<>>, required |-> <<>>,
     items |-> <<>>, hasAnyOf |-> FALSE, anyOf |-> <<>>, nullable |-> FALSE,
     description |-> <<>>, format |-> ""]

TypeSchema(t) == [NoSchema EXCEPT !.type = t]
DescriptionSchema(d) == [NoSchema EXCEPT !.description = d]
ArraySchema(items) == [NoSchema EXCEPT !.type = "array", !.items = <<items>>]
ObjectSchema(properties, required) ==
    [NoSchema EXCEPT !.type = "object", !.hasProperties = TRUE,
                     !.properties = properties, !.required = required]

\* obj[name] = value on a key-ordered object: a known key keeps its place
RECURSIVE PutKey(_, _, _)
PutKey(entries, name, value) ==
    IF entries = <<>> THEN <<[name |-> name, value |-> value]>>
    ELSE IF Head(entries).name = name
         THEN <<[name |-> name, value |-> value]>> \o Tail(entries)
    ELSE <<Head(entries)>> \o PutKey(Tail(entries), name, value)

RECURSIVE Dedup(_)
Dedup(xs) ==
    IF xs = <<>> THEN <<>>
    ELSE LET front == Dedup(SubSeq(xs, 1, Len(xs) - 1))
             x == xs[Len(xs)]
         IN IF \E i \in 1..Len(front) : front[i] = x THEN front ELSE Append(front, x)

\* the frames the engine's call stack holds before a further call throws
\* RangeError (Maximum call stack size exceeded)
MaxStackDepth == 6

\* typeToSchema: the result is the schema and the seen set as the call left
\* it (seen is one mutable Set shared by the whole recursion); overflow says
\* that the call threw RangeError instead of returning.  depth is the number
\* of typeToSchema frames on the stack, the call's own included.
RECURSIVE typeToSchemaSeen(_, _, _)
RECURSIVE membersToSchemas(_, _, _)
RECURSIVE membersAfter(_, _, _)
RECURSIVE propsToSchemas(_, _, _)
RECURSIVE propsAfter(_, _, _)

Returned(schema, seen) == [schema |-> schema, seen |-> seen, overflow |-> FALSE]
Thrown(seen) == [schema |-> NoSchema, seen |-> seen, overflow |-> TRUE]

\* nonNullish.map((t) => typeToSchema(checker, t, seen))
membersPrepend(first, rest) ==
    [list |-> <<first.schema>> \o rest.list, seen |-> rest.seen, overflow |-> rest.overflow]

membersAfter(first, ts, depth) ==
    IF first.overflow THEN [list |-> <<>>, seen |-> first.seen, overflow |-> TRUE]
    ELSE membersPrepend(first, membersToSchemas(ts, first.seen, depth))

membersToSchemas(ts, seen, depth) ==
    IF ts = <<>> THEN [list |-> <<>>, seen |-> seen, overflow |-> FALSE]
    ELSE membersAfter(typeToSchemaSeen(Head(ts), seen, depth), Tail(ts), depth)

\* properties[name] = typeToSchema(checker, pType, seen), property by property
propsPut(front, name, last) ==
    [list |-> PutKey(front.list, name, last.schema), seen |-> last.seen,
     overflow |-> last.overflow]

propsAfter(front, prop, depth) ==
    IF front.overflow THEN front
    ELSE propsPut(front, prop.name, typeToSchemaSeen(prop.ty, front.seen, depth))

propsToSchemas(props, seen, depth) ==
    IF props = <<>> THEN [list |-> <<>>, seen |-> seen, overflow |-> FALSE]
    ELSE propsAfter(propsToSchemas(SubSeq(props, 1, Len(props) - 1), seen, depth),
                    props[Len(props)], depth)

\* the single member's schema returned as it is
withNullable_Never(only, nullish) == only

\* if (nullish && s) s.nullable = true
withNullable(only, nullish) ==
    IF only.overflow THEN only
    ELSE Returned(IF nullish THEN [only.schema EXCEPT !.nullable = TRUE] ELSE only.schema,
                  only.seen)

\* { anyOf: uniq, nullable: nullish || undefined }
anyOfSchema(raws, nullish) ==
    IF raws.overflow THEN Thrown(raws.seen)
    ELSE Returned([NoSchema EXCEPT !.hasAnyOf = TRUE, !.anyOf = Dedup(raws.list),
                                   !.nullable = nullish],
                  raws.seen)

\* { type: 'array', items }
arraySchema(items) ==
    IF items.overflow THEN items ELSE Returned(ArraySchema(items.schema), items.seen)

\* { type: 'object', properties } with required when it is not empty
objectSchema(ps, props) ==
    IF ps.overflow THEN Thrown(ps.seen)
    ELSE Returned(ObjectSchema(ps.list,
                               SelectSeq([i \in 1..Len(props) |->
                                             IF props[i].optional THEN <<>>
                                             ELSE props[i].name],
                                         LAMBDA n : n # <<>>)),
                  ps.seen)

\* the union branch: parts are the union's member types
unionSchema(parts, nonNullish, seen, depth) ==
    IF Len(nonNullish) = 1
    THEN withNullable(typeToSchemaSeen(nonNullish[1], seen, depth + 1),
                      \E i \in 1..Len(parts) : isNullish(parts[i]))
    ELSE anyOfSchema(membersToSchemas(nonNullish, seen, depth + 1),
                     \E i \in 1..Len(parts) : isNullish(parts[i]))

\* the branches after the union branch
plainSchema(type, t, seen, depth) ==
    IF isStringType(t) THEN Returned(TypeSchema("string"), seen)
    ELSE IF isNumberType(t) THEN Returned(TypeSchema("number"), seen)
    ELSE IF isBooleanType(t) THEN Returned(TypeSchema("boolean"), seen)
    ELSE IF type.index # <<>> THEN arraySchema(typeToSchemaSeen(type.index[1], seen, depth + 1))
    ELSE IF "Object" \in type.flags
    THEN IF t \in seen
         THEN Returned(DescriptionSchema(<<"...recursive...">>), seen)
         ELSE objectSchema(propsToSchemas(type.props, seen \cup {t}, depth + 1), type.props)
    ELSE Returned(DescriptionSchema(<<"Unparsed type: ", type.str>>), seen)

typeToSchemaSeen(t, seen, depth) ==
    IF depth > MaxStackDepth THEN Thrown(seen)
    ELSE IF "Union" \in TypeTable[t].flags
    THEN unionSchema(TypeTable[t].members,
                     SelectSeq(TypeTable[t].members, LAMBDA m : ~isNullish(m)), seen, depth)
    ELSE plainSchema(TypeTable[t], t, seen, depth)

\* a call from outside the recursion: seen is a fresh Set
typeToSchema(t) == typeToSchemaSeen(t, {}, 1).schema

(***************************************************************************)
(* Syntax trees (ts.Node).  kids are the children in the order             *)
(* ts.forEachChild visits them:                                            *)
(*   Call, New     callee, then the arguments                              *)
(*   PropAccess    the object expression, then the name                    *)
(*   Arrow, FuncExpr  the parameters, then the body                        *)
(*   Param         the name (an Ident or a BindingPattern)                 *)
(*   VarDecl       the name, the type annotation (if any), the initializer *)
(*   PropAssign    the name, then the initializer                          *)
(* text is an identifier's or literal's text (compared, never sliced), val *)
(* a string literal's characters or a numeric literal's value, ty the type *)
(* the checker reports at an expression, init what the binder knows of an  *)
(* identifier's or enum member's declaration (its initializer).            *)
(***************************************************************************)
Node(kind, kids) == [kind |-> kind, text |-> "", val |-> <<>>, ty |-> "", init |-> <<>>,
                     kids |-> kids]

Ident(t) == [Node("Ident", <<>>) EXCEPT !.text = t]
IdentOf(t, ty) == [Node("Ident", <<>>) EXCEPT !.text = t, !.ty = ty]
StringLit(t, chars) == [Node("StringLit", <<>>) EXCEPT !.text = t, !.val = chars, !.ty = tString]
NumLit(n, ty) == [Node("NumLit", <<>>) EXCEPT !.val = n, !.ty = ty]
PropAccess(obj, name) == Node("PropAccess", <<obj, Ident(name)>>)
Call(callee, args) == Node("Call", <<callee>> \o args)
CallOf(callee, args, ty) == [Node("Call", <<callee>> \o args) EXCEPT !.ty = ty]
ObjLit(props, ty) == [Node("ObjLit", props) EXCEPT !.ty = ty]
\* a property assignment named by an identifier, and one named by a string literal
PropAssign(name, chars, e) ==
    Node("PropAssign", <<[Ident(name) EXCEPT !.val = chars], e>>)
PropAssignStr(name, chars, e) == Node("PropAssign", <<StringLit(name, chars), e>>)
Paren(e) == [Node("Paren", <<e>>) EXCEPT !.ty = e.ty]
AsAny(e) == [Node("As", <<e, Node("TypeNode", <<>>)>>) EXCEPT !.ty = tAny]
Return(e) == Node("Return", <<e>>)
Block(stmts) == Node("Block", stmts)
ExprStmt(e) == Node("ExprStmt", <<e>>)
IfStmt(c, t) == Node("If", <<c, t>>)
Not(e) == [Node("Prefix", <<e>>) EXCEPT !.ty = tBoolean]
Cond(c, a, b) == Node("Cond", <<c, a, b>>)
Param(name) == Node("Param", <<name>>)
Arrow(params, body) == Node("Arrow", params \o <<body>>)
FuncExpr(params, body) == Node("FuncExpr", params \o <<body>>)
SourceFile(stmts) == Node("SourceFile", stmts)
Await(e) == [Node("Await", <<e>>) EXCEPT !.ty = e.ty]
TypeNode(ty) == [Node("TypeNode", <<>>) EXCEPT !.ty = ty]
\* const <name> = <init> and const <name>: <type> = <init>, inside their statement
VarDecl(name, init) == Node("VarStmt", <<Node("VarDecl", <<Ident(name), init>>)>>)
VarDeclTyped(name, ty, init) ==
    Node("VarStmt", <<Node("VarDecl", <<Ident(name), TypeNode(ty), init>>)>>)

\* a Call's or New's callee and arguments
Callee(n) == n.kids[1]
Args(n) == Tail(n.kids)
ArgAt(n, i) == IF Len(n.kids) > i THEN <<n.kids[i + 1]>> ELSE <<>>
\* a PropAccess's expression and name.getText()
AccessObj(n) == n.kids[1]
AccessName(n) == n.kids[2].text
\* a function's parameters and body
FnParams(n) == SubSeq(n.kids, 1, Len(n.kids) - 1)
FnBody(n) == n.kids[Len(n.kids)]

RECURSIVE stripParensAndCasts(_)
stripParensAndCasts(e) ==
    IF e.kind \in {"Paren", "As", "TypeAssertion", "NonNull"}
    THEN stripParensAndCasts(e.kids[1])
    ELSE e

HttpMethods == {"get", "post", "put", "patch", "delete", "options", "head"}

\* a variant that recognises registrations on the receiver app alone
isHonoRouteCall_AppOnly(node) ==
    IF node.kind # "Call" THEN <<>>
    ELSE IF Callee(node).kind # "PropAccess" THEN <<>>
    ELSE IF AccessObj(Callee(node)).kind # "Ident" \/ AccessObj(Callee(node)).text # "app"
    THEN <<>>
    ELSE IF AccessName(Callee(node)) \notin HttpMethods THEN <<>>
    ELSE IF ArgAt(node, 1) = <<>> \/ ArgAt(node, 1)[1].kind # "StringLit" THEN <<>>
    ELSE <<[method |-> AccessName(Callee(node)), path |-> ArgAt(node, 1)[1].val]>>

\* the {method, path} of a route registration call, or nothing
isHonoRouteCall(node) ==
    IF node.kind # "Call" THEN <<>>
    ELSE IF Callee(node).kind # "PropAccess" THEN <<>>
    ELSE IF AccessName(Callee(node)) \notin HttpMethods THEN <<>>
    ELSE IF ArgAt(node, 1) = <<>> \/ ArgAt(node, 1)[1].kind # "StringLit" THEN <<>>
    ELSE <<[method |-> AccessName(Callee(node)), path |-> ArgAt(node, 1)[1].val]>>

\* extractPathParams: every match of /:([A-Za-z0-9_]+)/g, the name greedy
RECURSIVE WordRun(_)
WordRun(s) ==
    IF s # <<>> /\ IsWordChar(Head(s)) THEN <<Head(s)>> \o WordRun(Tail(s)) ELSE <<>>

RECURSIVE extractPathParams(_)
extractPathParams(path) ==
    IF path = <<>> THEN <<>>
    ELSE IF Head(path) = ":" /\ WordRun(Tail(path)) # <<>>
         THEN <<WordRun(Tail(path))>>
              \o extractPathParams(SliceFrom(path, 1 + Len(WordRun(Tail(path)))))
    ELSE extractPathParams(Tail(path))

(***************************************************************************)
(* Traversal.  visit(n) handles n and then calls ts.forEachChild(n, visit) *)
(* (no visitor returns a value, so no traversal stops early): the nodes    *)
(* are handled in depth-first pre-order.                                   *)
(***************************************************************************)
RECURSIVE PreOrder(_)
RECURSIVE PreOrderAll(_)
PreOrder(n) == <<n>> \o PreOrderAll(n.kids)
PreOrderAll(ns) == IF ns = <<>> THEN <<>> ELSE PreOrder(Head(ns)) \o PreOrderAll(Tail(ns))

\* ts.forEachChild(cb, visit): the nodes below cb, cb itself excluded
Below(cb) == PreOrderAll(cb.kids)

\* the nodes among nodes at which a visit that acts on these kinds acts
OfKinds(nodes, kinds) == SelectSeq(nodes, LAMBDA n : n.kind \in kinds)

TypeAt(e) == IF e.ty = "" THEN tAny ELSE e.ty

(***************************************************************************)
(* src/analyzer.ts: response extraction.                                   *)
(***************************************************************************)
\* a || b on optional values, and on texts (the empty text is falsy too)
OrElse(a, b) == IF a # <<>> THEN a ELSE b
TextOrElse(a, b) == IF a \notin {<<>>, <<"">>} THEN a ELSE b

resolveIdentifierToInit(expr) ==
    LET base == stripParensAndCasts(expr)
    IN IF base.kind = "Ident" THEN base.init ELSE <<>>

\* the text of the string literal expr resolves to, or nothing
RECURSIVE resolveToStringLiteralText(_, _)
resolveToStringLiteralText(hasChecker, expr) ==
    LET e == stripParensAndCasts(expr) IN
    IF e.kind = "StringLit" THEN <<e.text>>
    ELSE IF e.kind = "Ident"
    THEN IF resolveIdentifierToInit(e) # <<>>
         THEN resolveToStringLiteralText(hasChecker, resolveIdentifierToInit(e)[1])
         ELSE IF hasChecker /\ "StringLiteral" \in TypeTable[TypeAt(e)].flags
              THEN <<TypeTable[TypeAt(e)].value>>
         ELSE <<>>
    ELSE <<>>

sContentType == <<"c","o","n","t","e","n","t","-","t","y","p","e">>

\* one step of findExplicitContentType's visit: found after node
ContentTypeAt(found, node, paramName) ==
    IF /\ node.kind = "Call"
       /\ Callee(node).kind = "PropAccess"
       /\ AccessName(Callee(node)) = "header"
       /\ (paramName = <<>>
            \/ (AccessObj(Callee(node)).kind = "Ident"
                /\ AccessObj(Callee(node)).text = paramName[1]))
       /\ ArgAt(node, 1) # <<>> /\ ArgAt(node, 2) # <<>>
       /\ ArgAt(node, 1)[1].kind = "StringLit"
       /\ ToLowerCase(ArgAt(node, 1)[1].val) = sContentType
    THEN TextOrElse(resolveToStringLiteralText(TRUE, ArgAt(node, 2)[1]), found)
    ELSE found

RECURSIVE FoldContentType(_, _, _)
FoldContentType(found, nodes, paramName) ==
    IF nodes = <<>> THEN found
    ELSE FoldContentType(ContentTypeAt(found, Head(nodes), paramName), Tail(nodes), paramName)

findExplicitContentType(cb, paramName) ==
    FoldContentType(<<>>, OfKinds(Below(cb), {"Call"}), paramName)

\* the number literal values among a type (or a union's members), first
\* occurrences in member order
numbersFromType(t) ==
    LET type == TypeTable[t]
        parts == IF "Union" \in type.flags THEN type.members ELSE <<t>>
        lits == SelectSeq(parts, LAMBDA m : "NumberLiteral" \in TypeTable[m].flags)
    IN Dedup([i \in 1..Len(lits) |-> TypeTable[lits[i]].value])

\* an enum member access carries its numeric initializer in init
tryGetEnumMemberValue(pae) == pae.init

\* a variant that keeps the first status alone
extractStatuses_FirstOnly(expr) ==
    LET e == stripParensAndCasts(expr) IN
    IF e.kind = "NumLit" THEN <<e.val>>
    ELSE IF e.kind = "PropAccess" /\ tryGetEnumMemberValue(e) # <<>>
    THEN tryGetEnumMemberValue(e)
    ELSE IF numbersFromType(TypeAt(e)) = <<>> THEN <<>>
    ELSE <<Head(numbersFromType(TypeAt(e)))>>

extractStatuses(expr) ==
    LET e == stripParensAndCasts(expr) IN
    IF e.kind = "NumLit" THEN <<e.val>>
    ELSE IF e.kind = "PropAccess" /\ tryGetEnumMemberValue(e) # <<>>
    THEN tryGetEnumMemberValue(e)
    ELSE numbersFromType(TypeAt(e))

\* display texts of the types isBinaryLikeType's names and patterns match
BinaryTypeTexts ==
    {"ArrayBuffer", "SharedArrayBuffer", "Uint8Array", "ReadableStream<any>", "Blob",
     "File", "FormData"}

RECURSIVE isBinaryLikeType(_)
isBinaryLikeType(t) ==
    IF "Union" \in TypeTable[t].flags
    THEN \E i \in 1..Len(TypeTable[t].members) : isBinaryLikeType(TypeTable[t].members[i])
    ELSE TypeTable[t].str \in BinaryTypeTexts

\* the first 'type' option of new Blob(parts, {type}) / new File(bits, name, {type})
RECURSIVE FirstTypeOption(_)
FirstTypeOption(props) ==
    IF props = <<>> THEN <<>>
    ELSE IF Head(props).kind # "PropAssign" \/ Head(props).kids[1].kind # "Ident"
            \/ Head(props).kids[1].text # "type"
         THEN FirstTypeOption(Tail(props))
    ELSE IF Head(props).kids[2].kind = "StringLit" THEN <<Head(props).kids[2].text>>
    ELSE TextOrElse(resolveToStringLiteralText(TRUE, Head(props).kids[2]),
                    FirstTypeOption(Tail(props)))

\* expr is optional
inferMediaTypeFromExpression(expr) ==
    IF expr = <<>> THEN <<>>
    ELSE LET e == stripParensAndCasts(expr[1])
             name == Callee(e).text
             optionsArg == IF name = "File" THEN ArgAt(e, 3) ELSE ArgAt(e, 2)
         IN IF e.kind = "New" /\ name \in {"Blob", "File"}
               /\ optionsArg # <<>> /\ optionsArg[1].kind = "ObjLit"
            THEN FirstTypeOption(optionsArg[1].kids)
            ELSE <<>>

\* the first property assignment of an object literal whose identifier name is name
RECURSIVE FindProp(_, _)
FindProp(props, name) ==
    IF props = <<>> THEN <<>>
    ELSE IF Head(props).kind = "PropAssign" /\ Head(props).kids[1].kind = "Ident"
            /\ Head(props).kids[1].text = name
         THEN <<Head(props)>>
    ELSE FindProp(Tail(props), name)

\* the content-type among the entries of a headers literal: an identifier
\* key cannot spell 'content-type', a string literal key can
RECURSIVE HeaderContentType(_)
HeaderContentType(hs) ==
    IF hs = <<>> THEN <<>>
    ELSE IF Head(hs).kind # "PropAssign" \/ Head(hs).kids[1].kind # "StringLit"
            \/ ToLowerCase(Head(hs).kids[1].val) # sContentType
         THEN HeaderContentType(Tail(hs))
    ELSE IF Head(hs).kids[2].kind = "StringLit" THEN <<Head(hs).kids[2].text>>
    ELSE TextOrElse(resolveToStringLiteralText(FALSE, Head(hs).kids[2]),
                    HeaderContentType(Tail(hs)))

\* every 'headers' property that is an object literal is searched in turn
RECURSIVE HeadersContentType(_)
HeadersContentType(props) ==
    IF props = <<>> THEN <<>>
    ELSE IF Head(props).kind = "PropAssign" /\ Head(props).kids[1].kind = "Ident"
            /\ Head(props).kids[1].text = "headers" /\ Head(props).kids[2].kind = "ObjLit"
         THEN OrElse(HeaderContentType(Head(props).kids[2].kids),
                     HeadersContentType(Tail(props)))
    ELSE HeadersContentType(Tail(props))

\* init is optional
inferMediaTypeFromResponseInit(init) ==
    IF init = <<>> \/ init[1].kind # "ObjLit" THEN <<>>
    ELSE HeadersContentType(init[1].kids)

\* the statuses of the status property p, which is optional
StatusesOfProp(p) == IF p = <<>> THEN <<>> ELSE extractStatuses(p[1].kids[2])

extractStatusFromResponseInit(init) ==
    IF init = <<>> \/ init[1].kind # "ObjLit" THEN <<>>
    ELSE StatusesOfProp(FindProp(init[1].kids, "status"))

\* one entry of findResponses' result; every field is optional
Found(text, schema, status, mediaType, headers) ==
    [text |-> text, schema |-> schema, status |-> status, mediaType |-> mediaType,
     headers |-> headers]

\* one entry per status, or one with the status unset when there is none
PerStatus(statuses, text, schema, mediaType, headers) ==
    IF statuses # <<>>
    THEN [i \in 1..Len(statuses) |-> Found(text, schema, <<statuses[i]>>, mediaType, headers)]
    ELSE <<Found(text, schema, <<>>, mediaType, headers)>>

StringSchema == TypeSchema("string")
BinarySchema == [TypeSchema("string") EXCEPT !.format = "binary"]
LocationHeaders ==
    <<[name |-> "Location", value |-> [TypeSchema("string") EXCEPT !.format = "uri"]]>>

\* a variant that accepts every receiver
isCtx_Any(base, paramName) == TRUE

\* the receiver test of findResponses; paramName is optional
isCtx(base, paramName) ==
    IF paramName = <<>> THEN TRUE
    ELSE IF base.kind = "Ident" THEN base.text = paramName[1]
    ELSE IF base.kind = "PropAccess" /\ AccessObj(base).kind = "Ident"
         THEN AccessObj(base).text = paramName[1]
    ELSE FALSE

\* what ctx.body(a0, status?) is recorded as
BodyResponse(a0, statuses, explicitContentType) ==
    IF a0 # <<>> /\ isStringType(TypeAt(a0[1]))
    THEN PerStatus(statuses, <<>>, <<StringSchema>>,
                   OrElse(explicitContentType, <<"text/plain">>), <<>>)
    ELSE PerStatus(statuses, <<>>, <<BinarySchema>>,
                   OrElse(explicitContentType,
                          TextOrElse(inferMediaTypeFromExpression(a0),
                                     <<"application/octet-stream">>)),
                   <<>>)

\* what a qualifying member call named callName is recorded as
CallNamed(callName, a0, statuses, explicitContentType) ==
    CASE callName = "json" ->
           IF a0 = <<>> THEN <<>>
           ELSE PerStatus(statuses, <<TypeTable[TypeAt(a0[1])].str>>,
                          <<typeToSchema(TypeAt(a0[1]))>>,
                          OrElse(explicitContentType, <<"application/json">>), <<>>)
      [] callName = "text" ->
           PerStatus(statuses, <<>>, <<StringSchema>>,
                     OrElse(explicitContentType, <<"text/plain">>), <<>>)
      [] callName = "body" -> BodyResponse(a0, statuses, explicitContentType)
      [] callName = "html" ->
           PerStatus(statuses, <<>>, <<StringSchema>>,
                     OrElse(explicitContentType, <<"text/html">>), <<>>)
      [] callName = "notFound" ->
           PerStatus(OrElse(statuses, <<404>>), <<>>, <<>>, <<>>, <<>>)
      [] callName = "redirect" ->
           PerStatus(OrElse(statuses, <<302>>), <<>>, <<>>, <<>>, <<LocationHeaders>>)
      [] OTHER -> <<>>

CallResponses(node, explicitContentType) ==
    CallNamed(AccessName(Callee(node)), ArgAt(node, 1),
              IF ArgAt(node, 2) # <<>> THEN extractStatuses(ArgAt(node, 2)[1]) ELSE <<>>,
              explicitContentType)

\* the schema of new Response(a0, ...); a0 is optional
ResponseBodySchema(a0) ==
    IF a0 = <<>> THEN <<>>
    ELSE IF isStringType(TypeAt(a0[1])) THEN <<StringSchema>>
    ELSE IF isBinaryLikeType(TypeAt(a0[1]))
            \/ inferMediaTypeFromExpression(a0) \notin {<<>>, <<"">>}
         THEN <<BinarySchema>>
    ELSE <<>>

\* what return new Response(body, init) is recorded as
NewResponseResponses(ne, explicitContentType) ==
    PerStatus(OrElse(extractStatusFromResponseInit(ArgAt(ne, 2)), <<200>>), <<>>,
              ResponseBodySchema(ArgAt(ne, 1)),
              TextOrElse(inferMediaTypeFromResponseInit(ArgAt(ne, 2)), explicitContentType),
              <<>>)

\* what findResponses' visit pushes at one node
ResponsesAt(node, paramName, explicitContentType) ==
    IF /\ node.kind = "Call"
       /\ Callee(node).kind = "PropAccess"
       /\ isCtx(stripParensAndCasts(AccessObj(Callee(node))), paramName)
    THEN CallResponses(node, explicitContentType)
    ELSE IF /\ node.kind = "Return"
            /\ node.kids # <<>>
            /\ node.kids[1].kind = "New"
            /\ Callee(node.kids[1]).text = "Response"
    THEN NewResponseResponses(node.kids[1], explicitContentType)
    ELSE <<>>

\* a variant that stops at the first node that yields a response
RECURSIVE ResponsesOf_FirstOnly(_, _, _)
ResponsesOf_FirstOnly(nodes, paramName, explicitContentType) ==
    IF nodes = <<>> THEN <<>>
    ELSE OrElse(ResponsesAt(Head(nodes), paramName, explicitContentType),
                ResponsesOf_FirstOnly(Tail(nodes), paramName, explicitContentType))

RECURSIVE ResponsesOf(_, _, _)
ResponsesOf(nodes, paramName, explicitContentType) ==
    IF nodes = <<>> THEN <<>>
    ELSE ResponsesAt(Head(nodes), paramName, explicitContentType)
         \o ResponsesOf(Tail(nodes), paramName, explicitContentType)

\* cb and paramName are optional; the traversal starts at cb's children
findResponses(cb, paramName) ==
    IF cb = <<>> THEN <<>>
    ELSE ResponsesOf(OfKinds(Below(cb[1]), {"Call", "Return"}), paramName,
                     findExplicitContentType(cb[1], paramName))

(***************************************************************************)
(* src/analyzer.ts: request data extraction.                               *)
(***************************************************************************)
\* base is <ctxName>.<member> (any <x>.<member> when the name is unknown)
isCtxMember(base, ctxName, member) ==
    LET b == stripParensAndCasts(base) IN
    IF b.kind # "PropAccess" THEN FALSE
    ELSE IF AccessName(b) # member THEN FALSE
    ELSE IF ctxName = <<>> THEN TRUE
    ELSE LET obj == stripParensAndCasts(AccessObj(b))
         IN obj.kind = "Ident" /\ obj.text = ctxName[1]

\* Array.from(set) after set.add of each name in turn
RECURSIVE AddAll(_, _)
AddAll(set, names) ==
    IF names = <<>> THEN set
    ELSE AddAll(IF \E i \in 1..Len(set) : set[i] = Head(names) THEN set
                ELSE Append(set, Head(names)), Tail(names))

RECURSIVE PutAll(_, _)
PutAll(entries, more) ==
    IF more = <<>> THEN entries
    ELSE PutAll(PutKey(entries, Head(more).name, Head(more).value), Tail(more))

\* callee.expression.getText() is 'z' or ends with '.z'
isZodObjectCall(call) ==
    /\ Callee(call).kind = "PropAccess"
    /\ AccessName(Callee(call)) = "object"
    /\ \/ (AccessObj(Callee(call)).kind = "Ident" /\ AccessObj(Callee(call)).text = "z")
       \/ (AccessObj(Callee(call)).kind = "PropAccess"
           /\ AccessName(AccessObj(Callee(call))) = "z")

RECURSIVE UnwrapOptional(_)
UnwrapOptional(e) ==
    IF e.kind = "Call" /\ Callee(e).kind = "PropAccess" /\ AccessName(Callee(e)) = "optional"
    THEN UnwrapOptional(AccessObj(Callee(e)))
    ELSE e

IsOptionalCall(e) ==
    e.kind = "Call" /\ Callee(e).kind = "PropAccess" /\ AccessName(Callee(e)) = "optional"

UnparsedZod == DescriptionSchema(<<"Unparsed Zod schema">>)

\* the results are optional schemas (zodObjectCallToSchema may return undefined)
RECURSIVE zodObjectCallToSchema(_)
RECURSIVE zodTypeExprToSchema(_)
RECURSIVE ZodProperties(_)

\* one [name, value, optional] entry per identifier-named member, in order
ZodEntry(name, r) == [name |-> name, value |-> r.schema, optional |-> r.optional]

ZodProperties(props) ==
    IF props = <<>> THEN <<>>
    ELSE (IF Head(props).kind # "PropAssign" \/ Head(props).kids[1].kind # "Ident"
          THEN <<>>
          ELSE <<ZodEntry(Head(props).kids[1].val, zodTypeExprToSchema(Head(props).kids[2]))>>)
         \o ZodProperties(Tail(props))

\* { type: 'object', properties, required } of the entries ps
ZodObject(ps) ==
    ObjectSchema(PutAll(<<>>, ps),
                 SelectSeq([i \in 1..Len(ps) |-> IF ps[i].optional THEN <<>> ELSE ps[i].name],
                           LAMBDA n : n # <<>>))

zodObjectCallToSchema(call) ==
    IF ArgAt(call, 1) = <<>> \/ ArgAt(call, 1)[1].kind # "ObjLit" THEN <<>>
    ELSE <<ZodObject(ZodProperties(ArgAt(call, 1)[1].kids))>>

\* the schema of the z.<name>(...) call cur
ZodNamed(name, cur) ==
    CASE name = "string" -> StringSchema
      [] name = "number" -> TypeSchema("number")
      [] name = "boolean" -> TypeSchema("boolean")
      [] name = "array" ->
           ArraySchema(IF ArgAt(cur, 1) # <<>>
                       THEN zodTypeExprToSchema(ArgAt(cur, 1)[1]).schema ELSE NoSchema)
      [] name = "object" -> OrElse(zodObjectCallToSchema(cur), <<NoSchema>>)[1]
      [] OTHER -> UnparsedZod

\* a variant that takes no member as optional
ZodUnwrapped_Required(cur, optional) ==
    IF /\ cur.kind = "Call" /\ Callee(cur).kind = "PropAccess"
       /\ AccessObj(Callee(cur)).kind = "Ident" /\ AccessObj(Callee(cur)).text = "z"
    THEN [schema |-> ZodNamed(AccessName(Callee(cur)), cur), optional |-> FALSE]
    ELSE [schema |-> UnparsedZod, optional |-> FALSE]

\* cur is expr without its .optional() calls
ZodUnwrapped(cur, optional) ==
    IF /\ cur.kind = "Call" /\ Callee(cur).kind = "PropAccess"
       /\ AccessObj(Callee(cur)).kind = "Ident" /\ AccessObj(Callee(cur)).text = "z"
    THEN [schema |-> ZodNamed(AccessName(Callee(cur)), cur), optional |-> optional]
    ELSE [schema |-> UnparsedZod, optional |-> optional]

zodTypeExprToSchema(expr) ==
    ZodUnwrapped(stripParensAndCasts(UnwrapOptional(expr)), IsOptionalCall(expr))

\* the traversal state of findRequestData
NoRequestData == [bodySchema |-> <<>>, queryProps |-> <<>>, requiredQuery |-> <<>>]

\* a variant that leaves the required set as it is
mergeQuerySchemaFromObjectSchema_NoRequired(st, objSchema) ==
    IF objSchema.type # "object" \/ ~objSchema.hasProperties THEN st
    ELSE [st EXCEPT !.queryProps = PutAll(@, objSchema.properties)]

mergeQuerySchemaFromObjectSchema(st, objSchema) ==
    IF objSchema.type # "object" \/ ~objSchema.hasProperties THEN st
    ELSE [st EXCEPT !.queryProps = PutAll(@, objSchema.properties),
                    !.requiredQuery = AddAll(@, objSchema.required)]

\* a VarDecl's type annotation and initializer, both optional
DeclType(node) == SelectSeq(Tail(node.kids), LAMBDA k : k.kind = "TypeNode")
DeclInit(node) == SelectSeq(Tail(node.kids), LAMBDA k : k.kind # "TypeNode")

\* considerTyped(): the schema of the declared type, if one is declared
considerTyped(node) ==
    IF DeclType(node) # <<>> THEN <<typeToSchema(TypeAt(DeclType(node)[1]))>> ELSE <<>>

\* init or the operand of await init, when that is a call
DeclCall(init) ==
    IF init.kind = "Await" /\ init.kids[1].kind = "Call" THEN <<init.kids[1]>>
    ELSE IF init.kind = "Call" THEN <<init>>
    ELSE <<>>

\* call is <ctx>.req.<name>(...)
IsReqCall(call, paramName, name) ==
    /\ Callee(call).kind = "PropAccess"
    /\ AccessName(Callee(call)) = name
    /\ isCtxMember(AccessObj(Callee(call)), paramName, "req")

\* bodySchema ||= schema, on the traversal state; schema is optional
OrBodySchema(st, schema) ==
    IF st.bodySchema = <<>> THEN [st EXCEPT !.bodySchema = schema] ELSE st

DeclBody(st, init, call, typed, paramName) ==
    IF IsReqCall(call, paramName, "json")
    THEN OrBodySchema(st, OrElse(typed, <<typeToSchema(TypeAt(init))>>))
    ELSE st

DeclQuery(st, call, typed, paramName) ==
    IF IsReqCall(call, paramName, "query") /\ typed # <<>>
    THEN mergeQuerySchemaFromObjectSchema(st, typed[1])
    ELSE st

DeclData(st, init, call, typed, paramName) ==
    IF call = <<>> THEN st
    ELSE DeclQuery(DeclBody(st, init, call[1], typed, paramName), call[1], typed, paramName)

\* the variable declaration part of the visit
RequestDataAtDecl(st, node, paramName) ==
    IF node.kind # "VarDecl" \/ DeclInit(node) = <<>> THEN st
    ELSE DeclData(st, stripParensAndCasts(DeclInit(node)[1]),
                  DeclCall(stripParensAndCasts(DeclInit(node)[1])), considerTyped(node),
                  paramName)

\* node is <schema>.parse(await <ctx>.req.json())
IsParseOfJson(node, paramName) ==
    /\ Callee(node).kind = "PropAccess" /\ AccessName(Callee(node)) = "parse"
    /\ ArgAt(node, 1) # <<>> /\ ArgAt(node, 1)[1].kind = "Await"
    /\ ArgAt(node, 1)[1].kids[1].kind = "Call"
    /\ IsReqCall(ArgAt(node, 1)[1].kids[1], paramName, "json")

\* the schema of the z.object(...) call that schemaInit is, if it is one
ZodBody(schemaInit) ==
    IF schemaInit # <<>> /\ schemaInit[1].kind = "Call" /\ isZodObjectCall(schemaInit[1])
    THEN zodObjectCallToSchema(schemaInit[1])
    ELSE <<>>

CallBody(st, node, paramName) ==
    IF IsParseOfJson(node, paramName)
    THEN OrBodySchema(st, ZodBody(resolveIdentifierToInit(AccessObj(Callee(node)))))
    ELSE st

CallQuery(st, node, paramName) ==
    IF /\ Callee(node).kind = "PropAccess" /\ AccessName(Callee(node)) = "query"
       /\ isCtxMember(AccessObj(Callee(node)), paramName, "req")
       /\ ArgAt(node, 1) # <<>> /\ ArgAt(node, 1)[1].kind = "StringLit"
    THEN [st EXCEPT !.queryProps = PutKey(@, ArgAt(node, 1)[1].val, StringSchema)]
    ELSE st

\* the call expression part of the visit
RequestDataAtCall(st, node, paramName) ==
    IF node.kind # "Call" THEN st
    ELSE CallQuery(CallBody(st, node, paramName), node, paramName)

RECURSIVE FoldRequestData(_, _, _)
FoldRequestData(st, nodes, paramName) ==
    IF nodes = <<>> THEN st
    ELSE FoldRequestData(
             RequestDataAtCall(RequestDataAtDecl(st, Head(nodes), paramName),
                               Head(nodes), paramName),
             Tail(nodes), paramName)

\* the result of findRequestData for the final traversal state
RequestData(st) ==
    [bodySchema |-> st.bodySchema,
     querySchema |-> IF st.queryProps # <<>>
                     THEN <<ObjectSchema(st.queryProps, st.requiredQuery)>>
                     ELSE <<>>]

\* cb and paramName are optional; the result's schemas are optional
findRequestData(cb, paramName) ==
    IF cb = <<>> THEN [bodySchema |-> <<>>, querySchema |-> <<>>]
    ELSE RequestData(FoldRequestData(NoRequestData,
                                     OfKinds(Below(cb[1]), {"VarDecl", "Call"}), paramName))

(***************************************************************************)
(* src/analyzer.ts: analyzeSource.                                         *)
(***************************************************************************)
RouteInfo(method, path) ==
    [method |-> method, path |-> path, responseTypeText |-> <<>>, responseSchema |-> <<>>,
     requestBodySchema |-> <<>>, querySchema |-> <<>>, pathParams |-> <<>>,
     responses |-> <<>>, middlewareScopes |-> <<>>]

\* handler is optional: the body and the first parameter's name of an inline one
HandlerBody(handler) ==
    IF handler # <<>> /\ handler[1].kind \in {"Arrow", "FuncExpr"}
    THEN <<FnBody(handler[1])>> ELSE <<>>

HandlerParamName(handler) ==
    IF /\ handler # <<>> /\ handler[1].kind \in {"Arrow", "FuncExpr"}
       /\ FnParams(handler[1]) # <<>>
       /\ FnParams(handler[1])[1].kids[1].kind = "Ident"
    THEN <<FnParams(handler[1])[1].kids[1].text>> ELSE <<>>

\* the record pushed for route, given what the handler's body yields
RouteRecord(route, foundList, req) ==
    [RouteInfo(route.method, route.path) EXCEPT
       !.responseTypeText = IF foundList # <<>> THEN foundList[1].text ELSE <<>>,
       !.responseSchema = IF foundList # <<>> THEN foundList[1].schema ELSE <<>>,
       !.requestBodySchema = req.bodySchema,
       !.querySchema = req.querySchema,
       !.pathParams = extractPathParams(route.path),
       !.responses = [i \in 1..Len(foundList) |->
                         [status |-> IF foundList[i].status # <<>>
                                     THEN foundList[i].status[1] ELSE 200,
                          schema |-> foundList[i].schema,
                          mediaType |-> foundList[i].mediaType,
                          headers |-> foundList[i].headers]]]

\* the record analyzeSource pushes for a registration node
RouteAt(node) ==
    RouteRecord(isHonoRouteCall(node)[1],
                findResponses(HandlerBody(ArgAt(node, 2)), HandlerParamName(ArgAt(node, 2))),
                findRequestData(HandlerBody(ArgAt(node, 2)),
                                HandlerParamName(ArgAt(node, 2))))

\* the records pushed at the registration nodes regs
RouteEach(regs) == [i \in 1..Len(regs) |-> RouteAt(regs[i])]

\* the records pushed while visiting nodes in order
RoutesOf(nodes) == RouteEach(SelectSeq(nodes, LAMBDA n : isHonoRouteCall(n) # <<>>))

\* visit(sourceFile): every node of the file in pre-order, the file included
analyzeSource(sourceFile) == RoutesOf(PreOrder(sourceFile))

(***************************************************************************)
(* schema.ts (in src/examples/autorouter/blog/[id]/index.ts): the document *)
(* assembler.                                                              *)
(***************************************************************************)
\* what typeTextToSchema's patterns make of the type texts the model uses:
\* a primitive keyword, T[] or Array<T> with element text T, or no match
TextForm(t) ==
    CASE t \in {"string", "String"} -> [form |-> "string", inner |-> ""]
      [] t \in {"number", "Number"} -> [form |-> "number", inner |-> ""]
      [] t \in {"boolean", "Boolean"} -> [form |-> "boolean", inner |-> ""]
      [] t = "null" -> [form |-> "null", inner |-> ""]
      [] t \in {"undefined", "void"} -> [form |-> "nullable", inner |-> ""]
      [] t = "string[]" -> [form |-> "array", inner |-> "string"]
      [] t = "Array<number>" -> [form |-> "array", inner |-> "number"]
      [] OTHER -> [form |-> "none", inner |-> ""]

\* typeText and the result are optional
RECURSIVE typeTextToSchema(_)
typeTextToSchema(typeText) ==
    IF typeText = <<>> \/ typeText = <<"">> THEN <<>>
    ELSE LET f == TextForm(typeText[1])
         IN CASE f.form \in {"string", "number", "boolean", "null"} -> <<TypeSchema(f.form)>>
              [] f.form = "nullable" -> <<[NoSchema EXCEPT !.nullable = TRUE]>>
              [] f.form = "array" ->
                   <<ArraySchema(IF typeTextToSchema(<<f.inner>>) # <<>>
                                 THEN typeTextToSchema(<<f.inner>>)[1] ELSE NoSchema)>>
              [] OTHER -> <<DescriptionSchema(<<"Unparsed type: ", typeText[1]>>)>>

\* a variant without the g flag: only the first token is replaced
RECURSIVE toOpenApiPath_FirstOnly(_)
toOpenApiPath_FirstOnly(honoPath) ==
    IF honoPath = <<>> THEN <<>>
    ELSE IF Head(honoPath) = ":" /\ WordRun(Tail(honoPath)) # <<>>
         THEN <<"{">> \o WordRun(Tail(honoPath)) \o <<"}">>
              \o SliceFrom(honoPath, 1 + Len(WordRun(Tail(honoPath))))
    ELSE <<Head(honoPath)>> \o toOpenApiPath_FirstOnly(Tail(honoPath))

\* honoPath.replace(/:([A-Za-z0-9_]+)/g, '{$1}')
RECURSIVE toOpenApiPath(_)
toOpenApiPath(honoPath) ==
    IF honoPath = <<>> THEN <<>>
    ELSE IF Head(honoPath) = ":" /\ WordRun(Tail(honoPath)) # <<>>
         THEN <<"{">> \o WordRun(Tail(honoPath)) \o <<"}">>
              \o toOpenApiPath(SliceFrom(honoPath, 1 + Len(WordRun(Tail(honoPath)))))
    ELSE <<Head(honoPath)>> \o toOpenApiPath(Tail(honoPath))

\* String(n) for a non-negative integer
Digit(d) == CASE d = 0 -> "0" [] d = 1 -> "1" [] d = 2 -> "2" [] d = 3 -> "3" [] d = 4 -> "4"
              [] d = 5 -> "5" [] d = 6 -> "6" [] d = 7 -> "7" [] d = 8 -> "8" [] d = 9 -> "9"

RECURSIVE NumberToString(_)
NumberToString(n) ==
    IF n < 10 THEN <<Digit(n)>> ELSE NumberToString(n \div 10) \o <<Digit(n % 10)>>

\* a map with string keys: obj[k] = v
PutMap(m, k, v) == [x \in DOMAIN m \cup {k} |-> IF x = k THEN v ELSE m[x]]
EmptyMap == [x \in {} |-> 0]

Parameter(name, in, required, schema) ==
    [name |-> name, in |-> in, required |-> required, schema |-> schema]

\* the response object of one collected response
ResponseObject(respItem) ==
    [description |-> "OK",
     headers |-> respItem.headers,
     content |-> IF respItem.schema # <<>>
                 THEN <<[name |-> IF respItem.mediaType \in {<<>>, <<"">>}
                                  THEN "application/json" ELSE respItem.mediaType[1],
                         value |-> respItem.schema[1]]>>
                 ELSE <<>>]

\* a variant that keeps the entry a code already has
RECURSIVE CollectResponses_FirstWins(_, _)
CollectResponses_FirstWins(responses, collected) ==
    IF collected = <<>> THEN responses
    ELSE LET respItem == Head(collected)
             code == NumberToString(IF respItem.status = 0 THEN 200 ELSE respItem.status)
         IN CollectResponses_FirstWins(IF code \in DOMAIN responses THEN responses
                                       ELSE PutMap(responses, code, ResponseObject(respItem)),
                                       Tail(collected))

RECURSIVE CollectResponses(_, _)
CollectResponses(responses, collected) ==
    IF collected = <<>> THEN responses
    ELSE LET respItem == Head(collected)
             code == NumberToString(IF respItem.status = 0 THEN 200 ELSE respItem.status)
         IN CollectResponses(PutMap(responses, code, ResponseObject(respItem)),
                             Tail(collected))

\* a variant that leaves the map empty when nothing was collected
DefaultResponses_Empty(schema) == EmptyMap

\* the responses of a record without collected responses; schema is optional
DefaultResponses(schema) ==
    PutMap(EmptyMap, <<"2", "0", "0">>,
           [description |-> "OK", headers |-> <<>>,
            content |-> IF schema # <<>>
                        THEN <<[name |-> "application/json", value |-> schema[1]]>>
                        ELSE <<>>])

\* the operation object built for one route record
Operation(r) ==
    LET schema == IF r.responseSchema # <<>> THEN r.responseSchema
                  ELSE typeTextToSchema(r.responseTypeText)
        pathParameters == [i \in 1..Len(r.pathParams) |->
                              Parameter(r.pathParams[i], "path", TRUE, StringSchema)]
        props == IF r.querySchema # <<>> /\ r.querySchema[1].hasProperties
                 THEN r.querySchema[1].properties ELSE <<>>
        req == IF r.querySchema # <<>> THEN r.querySchema[1].required ELSE <<>>
        queryParameters == [i \in 1..Len(props) |->
                               Parameter(props[i].name, "query",
                                         \E j \in 1..Len(req) : req[j] = props[i].name,
                                         props[i].value)]
        scopes == r.middlewareScopes
        hasScopes == scopes # <<>> /\ scopes[1] # <<>>
    IN [parameters |-> pathParameters \o queryParameters,
        tags |-> IF hasScopes THEN scopes ELSE <<>>,
        description |-> IF hasScopes THEN <<"Middleware applied from: ", scopes[1]>>
                        ELSE <<>>,
        requestBody |-> IF r.requestBodySchema # <<>>
                        THEN <<[required |-> TRUE,
                                content |-> <<[name |-> "application/json",
                                               value |-> r.requestBodySchema[1]]>>]>>
                        ELSE <<>>,
        responses |-> IF r.responses # <<>>
                      THEN CollectResponses(EmptyMap, r.responses)
                      ELSE DefaultResponses(schema)]

\* the paths object after the records of routes were folded into paths
RECURSIVE AssemblePaths(_, _)
AssemblePaths(paths, rs) ==
    IF rs = <<>> THEN paths
    ELSE LET r == Head(rs)
             path == toOpenApiPath(r.path)
             item == IF path \in DOMAIN paths THEN paths[path] ELSE EmptyMap
         IN AssemblePaths(PutMap(paths, path, PutMap(item, r.method, Operation(r))),
                          Tail(rs))

\* a variant that gives a document without records a path of its own
routesToOpenAPI_RootPath(rs) ==
    IF rs = <<>> THEN PutMap(EmptyMap, <<"/">>, EmptyMap) ELSE AssemblePaths(EmptyMap, rs)

\* the paths of the document; openapi and info are fixed texts
routesToOpenAPI(rs) == AssemblePaths(EmptyMap, rs)

lMulti == <<"/","m","u","l","t","i">>
lCond == <<"/","c","o","n","d">>
lHealth == <<"/","h","e","a","l","t","h">>
lGo == <<"/","g","o">>
lMissing == <<"/","m","i","s","s","i","n","g">>
lOther == <<"/","o","t","h","e","r">>
lIdJson == <<"/",":","i","d",".","j","s","o","n">>
lColon == <<"/","a",":","/","b">>
lTxt == <<"/","t","x","t">>
sRoutesTs == <<"r","o","u","t","e","s",".","t","s">>
sHealthTs == <<"h","e","a","l","t","h",".","t","s">>
sAdminTs == <<"a","d","m","i","n",".","t","s">>
lOuter == <<"/","o","u","t","e","r">>
lInner == <<"/","i","n","n","e","r">>
lKey == <<"k","e","y">>
lAll == <<"/","a","l","l">>
lBare == <<"/","b","a","r","e">>
lSame == <<"/","s","a","m","e">>
lMoved == <<"/","m","o","v","e","d">>
lStatus == <<"/","s","t","a","t","u","s">>
lGone == <<"/","g","o","n","e">>
lPlain == <<"/","p","l","a","i","n">>
sHeadersTs == <<"h","e","a","d","e","r","s",".","t","s">>
sFormsTs == <<"f","o","r","m","s",".","t","s">>
lItems == <<"/","i","t","e","m","s">>
lSearch == <<"/","s","e","a","r","c","h">>
lFind == <<"/","f","i","n","d">>
lCsv == <<"/","c","s","v">>
lLate == <<"/","l","a","t","e">>
lPick == <<"/","p","i","c","k">>
lNone == <<"/","n","o","n","e">>
lEcho == <<"/","e","c","h","o">>
lRead == <<"/","r","e","a","d">>
sContentTypeCased == <<"C","o","n","t","e","n","t","-","T","y","p","e">>
pUsersId == <<"/","u","s","e","r","s","/",":","i","d">>
sHttps == <<"h","t","t","p","s",":","/","/","e","x","a","m","p","l","e",".","c","o","m">>
sHello == <<"h","e","l","l","o"," ","w","o","r","l","d">>

(***************************************************************************)
(* Source files of the model: the repository's examples and variations of  *)
(* their handlers.  c is the handler's context parameter.                   *)
(***************************************************************************)

ctx == Ident("c")
OneParam == <<Param(Ident("c"))>>

\* c.req.param('id')
ReqParamId == CallOf(PropAccess(PropAccess(ctx, "req"), "param"), <<StringLit("id", sId)>>,
                     tString)
\* { user: c.req.param('id') }
UserLiteral == ObjLit(<<PropAssign("user", sUser, ReqParamId)>>, tUserObj)
\* { ok: true }
OkLiteral == ObjLit(<<PropAssign("ok", sOk, [Node("True", <<>>) EXCEPT !.ty = tTrue])>>,
                    tOkObj)
\* { error: 'Bad Request' }
ErrorLiteral ==
    ObjLit(<<PropAssign("error", sError, StringLit("Bad Request", <<"B">>))>>, tErrorObj)

\* <recv>.<name>(<args>)
Send(recv, name, args) == Call(PropAccess(recv, name), args)
\* app.<method>('<path>', <handler>)
Register(recv, method, pathText, path, handler) ==
    ExprStmt(Send(Ident(recv), method, <<StringLit(pathText, path)>> \o handler))

\* (c) => c.json({ user: c.req.param('id') })      examples/routes/users/route.ts
ExprJsonHandler == Arrow(OneParam, Send(ctx, "json", <<UserLiteral>>))
\* (c) => { return (c as any).json({ ok: true }) }                   /ping
BlockJsonHandler ==
    Arrow(OneParam, Block(<<Return(Send(Paren(AsAny(ctx)), "json", <<OkLiteral>>))>>))
\* (c) => { return c.json({ user: c.req.param('id') }) }
BlockUserHandler == Arrow(OneParam, Block(<<Return(Send(ctx, "json", <<UserLiteral>>))>>))
\* (c) => { if (!bad) { return c.json({ ok: true }, 200) }
\*          return c.json({ error: 'Bad Request' }, 422) }
MultiBlockHandler ==
    Arrow(OneParam,
          Block(<<IfStmt(Not(IdentOf("bad", tBoolean)),
                         Block(<<Return(Send(ctx, "json", <<OkLiteral, NumLit(200, t200)>>))>>)),
                  Return(Send(ctx, "json", <<ErrorLiteral, NumLit(422, t422)>>))>>))
\* function (c) { return ok ? c.json({ ok: true }, 200) : c.json({ error: ... }, 422) }
MultiCondHandler ==
    FuncExpr(OneParam,
             Block(<<Return(Cond(IdentOf("ok", tBoolean),
                                 Send(ctx, "json", <<OkLiteral, NumLit(200, t200)>>),
                                 Send(ctx, "json", <<ErrorLiteral, NumLit(422, t422)>>)))>>))
\* (c) => { return (c as any).text('hello world') }                  /txt
TextHandler ==
    Arrow(OneParam,
          Block(<<Return(Send(Paren(AsAny(ctx)), "text",
                              <<StringLit("hello world", sHello)>>))>>))
\* (c) => { return (c as any).redirect('https://example.com', 301) }  /go
RedirectHandler ==
    Arrow(OneParam,
          Block(<<Return(Send(Paren(AsAny(ctx)), "redirect",
                              <<StringLit("https://example.com", sHttps),
                                NumLit(301, tNumber)>>))>>))
\* (c) => { return (c as any).notFound() }                            /missing
NotFoundHandler ==
    Arrow(OneParam, Block(<<Return(Send(Paren(AsAny(ctx)), "notFound", <<>>))>>))
\* (c) => { return reply.json({ ok: true }) }: another receiver
OtherReceiverHandler ==
    Arrow(OneParam, Block(<<Return(Send(Ident("reply"), "json", <<OkLiteral>>))>>))
\* a handler passed by name
NamedHandler == IdentOf("handler", tUnknown)
\* (c) => c.json({ postId: c.req.param('id') })    examples/autorouter/blog/[id]/index.ts
PostIdHandler ==
    Arrow(OneParam,
          Send(ctx, "json", <<ObjLit(<<PropAssign("postId", sPostId, ReqParamId)>>,
                                     tPostIdObj)>>))

\* (c) => { cache.get('key')
\*          router.post('/inner', (c) => { return (c as any).text('hello world') })
\*          return c.json({ ok: true }) }
NestingHandler ==
    Arrow(OneParam,
          Block(<<ExprStmt(Send(Ident("cache"), "get", <<StringLit("key", lKey)>>)),
                  Register("router", "post", "/inner", lInner, <<TextHandler>>),
                  Return(Send(ctx, "json", <<OkLiteral>>))>>))

\* (c) => { if (!bad) { return c.text('hello world') }
\*          return c.json({ ok: true }) }: two responses without a status
SameStatusHandler ==
    Arrow(OneParam,
          Block(<<IfStmt(Not(IdentOf("bad", tBoolean)),
                         Block(<<Return(Send(ctx, "text",
                                             <<StringLit("hello world", sHello)>>))>>)),
                  Return(Send(ctx, "json", <<OkLiteral>>))>>))
\* (c) => { if (!bad) { return c.redirect('https://example.com', 301) }
\*          return c.json({ ok: true }, 301) }
MovedHandler ==
    Arrow(OneParam,
          Block(<<IfStmt(Not(IdentOf("bad", tBoolean)),
                         Block(<<Return(Send(ctx, "redirect",
                                             <<StringLit("https://example.com", sHttps),
                                               NumLit(301, tNumber)>>))>>)),
                  Return(Send(ctx, "json", <<OkLiteral, NumLit(301, tNumber)>>))>>))
\* with status: 400 | 422 and code: number,
\* (c) => { if (!bad) { return c.text('hello world', 201) }
\*          if (!ok) { return c.html('hello world', status) }
\*          if (!done) { return c.body('hello world', code) }
\*          return c.json({ error: 'Bad Request' }, status) }
StatusHandler ==
    Arrow(OneParam,
          Block(<<IfStmt(Not(IdentOf("bad", tBoolean)),
                         Block(<<Return(Send(ctx, "text",
                                             <<StringLit("hello world", sHello),
                                               NumLit(201, tNumber)>>))>>)),
                  IfStmt(Not(IdentOf("ok", tBoolean)),
                         Block(<<Return(Send(ctx, "html",
                                             <<StringLit("hello world", sHello),
                                               IdentOf("status", tErrStatus)>>))>>)),
                  IfStmt(Not(IdentOf("done", tBoolean)),
                         Block(<<Return(Send(ctx, "body",
                                             <<StringLit("hello world", sHello),
                                               IdentOf("code", tNumber)>>))>>)),
                  Return(Send(ctx, "json", <<ErrorLiteral, IdentOf("status", tErrStatus)>>))>>))
\* (c) => { return c.notFound(410) }
GoneHandler == Arrow(OneParam, Block(<<Return(Send(ctx, "notFound", <<NumLit(410, tNumber)>>))>>))
\* (c) => { return c.redirect('https://example.com') }
PlainRedirectHandler ==
    Arrow(OneParam,
          Block(<<Return(Send(ctx, "redirect",
                              <<StringLit("https://example.com", sHttps)>>))>>))

\* c.header('Content-Type', 'text/csv')
CsvHeader ==
    ExprStmt(Send(ctx, "header", <<StringLit("Content-Type", sContentTypeCased),
                                   StringLit("text/csv", <<>>)>>))
\* (c) => { c.header('Content-Type', 'text/csv')
\*          return c.text('hello world') }
HeaderFirstHandler ==
    Arrow(OneParam,
          Block(<<CsvHeader, Return(Send(ctx, "text", <<StringLit("hello world", sHello)>>))>>))
\* (c) => { if (!bad) { return c.text('hello world') }
\*          c.header('Content-Type', 'text/csv')
\*          return c.body('hello world') }
HeaderLateHandler ==
    Arrow(OneParam,
          Block(<<IfStmt(Not(IdentOf("bad", tBoolean)),
                         Block(<<Return(Send(ctx, "text",
                                             <<StringLit("hello world", sHello)>>))>>)),
                  CsvHeader,
                  Return(Send(ctx, "body", <<StringLit("hello world", sHello)>>))>>))
\* ({ req }) => { return reply.json({ ok: true }) }: no parameter name
DestructuredHandler ==
    Arrow(<<Param(Node("ObjPattern", <<Ident("req")>>))>>,
          Block(<<Return(Send(Ident("reply"), "json", <<OkLiteral>>))>>))
\* () => { return reply.text('hello world') }: no parameter
NoParamHandler ==
    Arrow(<<>>, Block(<<Return(Send(Ident("reply"), "text",
                                    <<StringLit("hello world", sHello)>>))>>))
\* async (c) => { const t = await c.req.text()
\*                return c.json({ ok: true }) }
EchoHandler ==
    Arrow(OneParam,
          Block(<<VarDecl("t", Await(CallOf(PropAccess(PropAccess(ctx, "req"), "text"), <<>>,
                                            tString))),
                  Return(Send(ctx, "json", <<OkLiteral>>))>>))
\* async (c) => { const b = await c.req.json()
\*                return c.json({ ok: true }) }
ReadHandler ==
    Arrow(OneParam,
          Block(<<VarDecl("b", Await(CallOf(PropAccess(PropAccess(ctx, "req"), "json"), <<>>,
                                            tAny))),
                  Return(Send(ctx, "json", <<OkLiteral>>))>>))

\* z.<name>(<args>) and <e>.optional()
ZCall(name, args) == CallOf(PropAccess(Ident("z"), name), args, tAny)
Optional(e) == CallOf(PropAccess(e, "optional"), <<>>, tAny)
\* c.req.<name>(<args>)
ReqCall(name, args, ty) == CallOf(PropAccess(PropAccess(ctx, "req"), name), args, ty)
\* <schema>.parse(await c.req.json()), the identifier declared with init
ParseJson(name, init) ==
    CallOf(PropAccess([IdentOf(name, tAny) EXCEPT !.init = <<init>>], "parse"),
           <<Await(ReqCall("json", <<>>, tAny))>>, tAny)

\* z.object({ name: z.string(), age: z.number().optional() })      part_001:59
UserSchemaInit ==
    ZCall("object",
          <<ObjLit(<<PropAssign("name", sName, ZCall("string", <<>>)),
                     PropAssign("age", sAge, Optional(ZCall("number", <<>>)))>>, tAny)>>)
\* async (c) => { const schema = z.object({ ... })
\*                const body = schema.parse(await c.req.json())
\*                const q: Q = c.req.query()
\*                return c.json({ error: 'Bad Request' }, status) }
UsersPostHandler ==
    Arrow(OneParam,
          Block(<<VarDecl("schema", UserSchemaInit),
                  VarDecl("body", ParseJson("schema", UserSchemaInit)),
                  VarDeclTyped("q", tPageQuery, ReqCall("query", <<>>, tAny)),
                  Return(Send(ctx, "json",
                              <<ErrorLiteral, IdentOf("status", tErrStatus)>>))>>))
\* z.object({ done: z.boolean(), tags: z.array(z.string()),
\*            meta: z.object({ id: z.string() }).optional(), when: z.date(),
\*            note: z.string().min(1), 'quoted': z.string() })
ItemSchemaInit ==
    ZCall("object",
          <<ObjLit(<<PropAssign("done", sDone, ZCall("boolean", <<>>)),
                     PropAssign("tags", sTags, ZCall("array", <<ZCall("string", <<>>)>>)),
                     PropAssign("meta", sMeta,
                                Optional(ZCall("object",
                                               <<ObjLit(<<PropAssign("id", sId,
                                                                     ZCall("string", <<>>))>>,
                                                        tAny)>>))),
                     PropAssign("when", sWhen, ZCall("date", <<>>)),
                     PropAssign("note", sNote,
                                CallOf(PropAccess(ZCall("string", <<>>), "min"),
                                       <<NumLit(1, tNumber)>>, tAny)),
                     PropAssignStr("quoted", sQuoted, ZCall("string", <<>>))>>, tAny)>>)
\* with const itemSchema = z.object({ ... }) at the top of the file,
\* async (c) => { const item = itemSchema.parse(await c.req.json())
\*                return c.json({ ok: true }) }
ItemsHandler ==
    Arrow(OneParam,
          Block(<<VarDecl("item", ParseJson("itemSchema", ItemSchemaInit)),
                  Return(Send(ctx, "json", <<OkLiteral>>))>>))
\* (c) => { const q: Search = c.req.query()
\*          const page = c.req.query('page')
\*          const sort = c.req.query('sort')
\*          return c.json({ ok: true }) }
SearchHandler ==
    Arrow(OneParam,
          Block(<<VarDeclTyped("q", tSearchQuery, ReqCall("query", <<>>, tAny)),
                  VarDecl("page", ReqCall("query", <<StringLit("page", sPage)>>, tOptString)),
                  VarDecl("sort", ReqCall("query", <<StringLit("sort", sSort)>>, tOptString)),
                  Return(Send(ctx, "json", <<OkLiteral>>))>>))
\* (c) => { const term = c.req.query('q')
\*          return c.json({ ok: true }) }
FindHandler ==
    Arrow(OneParam,
          Block(<<VarDecl("term", ReqCall("query", <<StringLit("q", sQ)>>, tOptString)),
                  Return(Send(ctx, "json", <<OkLiteral>>))>>))

\* absolute paths of the files
fUsersRoute == <<sApp, sUsers, sRouteTs>>
fRootRoute == <<sApp, sRouteTs>>
fUsersRouteTsx == <<sApp, sUsers, sRouteTsx>>
fUsersRoutes == <<sApp, sUsers, sRoutesTs>>
fLibRoute == <<sLib, sRouteTs>>
fBlogIdIndex == <<sApp, sBlog, sBrId, sIndexTs>>
fBlogIdFile == <<sApp, sBlog, sBrIdTs>>
fHealth == <<sApp, sHealthTs>>

fAdmin == <<sApp, sAdminTs>>
fHeaders == <<sApp, sHeadersTs>>
fForms == <<sApp, sFormsTs>>

SourceFiles ==
    {fUsersRoute, fRootRoute, fUsersRouteTsx, fUsersRoutes, fLibRoute, fBlogIdIndex,
     fBlogIdFile, fHealth, fAdmin, fHeaders, fForms}

\* program.getSourceFile(f)
SourceOf(f) ==
    CASE f = fUsersRoute ->
           SourceFile(<<Register("app", "get", "/:id", lId, <<ExprJsonHandler>>)>>)
      [] f = fRootRoute ->
           SourceFile(<<Register("app", "get", "/ping", lPing, <<BlockJsonHandler>>),
                        Register("app", "post", "/multi", lMulti, <<MultiBlockHandler>>),
                        Register("app", "get", "", lEmpty, <<TextHandler>>)>>)
      [] f = fUsersRouteTsx ->
           SourceFile(<<Register("app", "get", ":id", lIdBare, <<BlockUserHandler>>),
                        Register("app", "delete", "/:id", lId, <<NotFoundHandler>>)>>)
      [] f = fUsersRoutes ->
           SourceFile(<<Register("app", "get", "/:id", lId, <<BlockUserHandler>>),
                        Register("router", "put", "/cond", lCond, <<MultiCondHandler>>)>>)
      [] f = fLibRoute ->
           SourceFile(<<Register("app", "get", "/users/:id", lUsersId, <<NamedHandler>>),
                        Register("app", "get", "/go", lGo, <<RedirectHandler>>)>>)
      [] f = fBlogIdIndex ->
           SourceFile(<<Register("app", "get", "/", lSlash, <<PostIdHandler>>)>>)
      [] f = fBlogIdFile ->
           SourceFile(<<Register("app", "get", "/:a/:b", lAB, <<OtherReceiverHandler>>),
                        Register("app", "head", "/:id.json", lIdJson, <<>>)>>)
      [] f = fHealth ->
           SourceFile(<<Register("app", "get", "/health", lHealth, <<NamedHandler>>),
                        ExprStmt(Send(Ident("app"), "use", <<NamedHandler>>)),
                        Register("app", "get", "/a:/b", lColon, <<BlockJsonHandler>>)>>)
      \* app.get('/outer', <nesting handler>); app.get(p, handler); get('/bare', handler)
      \* app.all('/all', handler); app.get(); then the handlers with several responses
      [] f = fAdmin ->
           SourceFile(<<Register("app", "get", "/outer", lOuter, <<NestingHandler>>),
                        ExprStmt(Send(Ident("app"), "get",
                                      <<IdentOf("p", tString), NamedHandler>>)),
                        ExprStmt(Call(Ident("get"),
                                      <<StringLit("/bare", lBare), NamedHandler>>)),
                        Register("app", "all", "/all", lAll, <<NamedHandler>>),
                        ExprStmt(Send(Ident("app"), "get", <<>>)),
                        Register("app", "put", "/same", lSame, <<SameStatusHandler>>),
                        Register("app", "patch", "/moved", lMoved, <<MovedHandler>>),
                        Register("app", "post", "/status", lStatus, <<StatusHandler>>),
                        Register("app", "delete", "/gone", lGone, <<GoneHandler>>),
                        Register("app", "get", "/plain", lPlain, <<PlainRedirectHandler>>)>>)
      \* handlers with a content-type header call, without a parameter name, and
      \* with calls that read the request
      [] f = fHeaders ->
           SourceFile(<<Register("app", "get", "/csv", lCsv, <<HeaderFirstHandler>>),
                        Register("app", "get", "/late", lLate, <<HeaderLateHandler>>),
                        Register("app", "post", "/pick", lPick, <<DestructuredHandler>>),
                        Register("app", "get", "/none", lNone, <<NoParamHandler>>),
                        Register("app", "put", "/echo", lEcho, <<EchoHandler>>),
                        Register("app", "post", "/read", lRead, <<ReadHandler>>)>>)
      \* handlers that validate the request body and read the query
      [] f = fForms ->
           SourceFile(<<VarDecl("itemSchema", ItemSchemaInit),
                        Register("app", "post", "/users/:id", lUsersId, <<UsersPostHandler>>),
                        Register("app", "post", "/items", lItems, <<ItemsHandler>>),
                        Register("app", "get", "/search", lSearch, <<SearchHandler>>),
                        Register("app", "get", "/find", lFind, <<FindHandler>>)>>)

(***************************************************************************)
(* The run of analyzeToOpenAPI (src/index.ts) and of the CLI, which holds  *)
(* the same statements: the files of the entry patterns are analysed one   *)
(* by one, their records rewritten by the configured conventions, and the  *)
(* document is assembled from all of them.  raw notes, for each record of  *)
(* routes, the file it came from and the path its registration gave.       *)
(***************************************************************************)
MaxGiven == 2

\* the optional roots a run may be configured with
RootOptions == {<<>>, <<RootDir>>, <<<<sApp, sUsers>>>>}

\* the sets of directories holding a middleware.ts
MiddlewareDirs == {{}, {RootDir}, {RootDir, <<sApp, sUsers>>}}

\* records handed to routesToOpenAPI by a caller of the library
GivenRecords ==
    {[RouteInfo("get", lUsersId) EXCEPT !.responseTypeText = <<"string[]">>,
                                        !.pathParams = <<sId>>],
     RouteInfo("get", lPing),
     [RouteInfo("post", lAB) EXCEPT !.responseSchema = <<StringSchema>>],
     [RouteInfo("get", lPing) EXCEPT
        !.responses = <<[status |-> 0, schema |-> <<StringSchema>>, mediaType |-> <<>>,
                         headers |-> <<>>]>>]}

Init ==
    /\ pc = "start"
    /\ cfg \in [autoroutesRoot : RootOptions, autorouterRoot : RootOptions]
    /\ fsys \in MiddlewareDirs
    /\ files = <<>> /\ raw = <<>> /\ routes = <<>> /\ doc = <<>>
    /\ IdlePath

\* rs.map((r) => ({ ...r, path: joinRoutePaths(prefix, r.path), middlewareScopes }))
WithAutoroutes(rs, prefix, scopes) ==
    IF prefix # <<>> /\ prefix[1] # <<>>
    THEN [i \in 1..Len(rs) |->
             [rs[i] EXCEPT !.path = joinRoutePaths(prefix, rs[i].path),
                           !.middlewareScopes = <<scopes>>]]
    ELSE rs

\* a variant that also takes the path parameters from the composed path
WithAutorouter_Params(rs, base) ==
    IF base # <<>> /\ base[1] # <<>>
    THEN [i \in 1..Len(rs) |->
             [rs[i] EXCEPT !.path = joinRoutePaths(base, rs[i].path),
                           !.pathParams = extractPathParams(joinRoutePaths(base, rs[i].path))]]
    ELSE rs

\* rs.map((r) => ({ ...r, path: joinRoutePaths(base, r.path) }))
WithAutorouter(rs, base) ==
    IF base # <<>> /\ base[1] # <<>>
    THEN [i \in 1..Len(rs) |-> [rs[i] EXCEPT !.path = joinRoutePaths(base, rs[i].path)]]
    ELSE rs

\* the records one file contributes, the body of files.flatMap; rs are the
\* records analyzeSource gave for f
RewriteFile(f, rs, rootAbsAutoroutes, rootAbsAutorouter, mw) ==
    WithAutorouter(
        WithAutoroutes(rs,
                       IF rootAbsAutoroutes # <<>> /\ isRouteFile(f)
                       THEN computeAutoroutePrefix(f, rootAbsAutoroutes[1]) ELSE <<>>,
                       IF rootAbsAutoroutes # <<>>
                       THEN findMiddlewareScopes(f, rootAbsAutoroutes[1], mw) ELSE <<>>),
        IF rootAbsAutorouter # <<>>
        THEN computeAutorouterPath(rootAbsAutorouter[1], f) ELSE <<>>)

\* the records of file f, whose analysis gave rs, join the run's records
AnalysedFile(f, rs) ==
    /\ \A i \in 1..Len(files) : files[i] # f
    /\ files' = Append(files, f)
    /\ raw' = raw \o [i \in 1..Len(rs) |-> [file |-> f, path |-> rs[i].path]]
    /\ routes' = routes \o RewriteFile(f, rs, cfg.autoroutesRoot, cfg.autorouterRoot, fsys)
    /\ UNCHANGED <<docsVars, pc, cfg, fsys, doc, fn, arg, res>>

\* one step of files.flatMap: the next file of the glob result
AnalyzeFile ==
    /\ pc = "start"
    /\ Len(files) < MaxFiles
    /\ \E f \in SourceFiles : AnalysedFile(f, analyzeSource(SourceOf(f)))

\* routesToOpenAPI(routes) at the end of the run
Assemble ==
    /\ pc = "start"
    /\ doc' = routesToOpenAPI(routes)
    /\ pc' = "done"
    /\ UNCHANGED <<docsVars, cfg, fsys, files, raw, routes, fn, arg, res>>

\* routesToOpenAPI called by a user of the library with records of their own
AssembleGiven ==
    /\ pc = "start" /\ files = <<>>
    /\ cfg = [autoroutesRoot |-> <<>>, autorouterRoot |-> <<>>] /\ fsys = {}
    /\ \E rs \in SeqsUpTo(GivenRecords, MaxGiven) :
           /\ routes' = rs
           /\ doc' = routesToOpenAPI(rs)
    /\ pc' = "given"
    /\ UNCHANGED <<docsVars, cfg, fsys, files, raw, fn, arg, res>>

Next == AnalyzeFile \/ Assemble \/ AssembleGiven

Spec == Init /\ [][Next]_vars

\* the run's types: raw and routes go record by record
TypeOK ==
    /\ pc \in {"start", "done", "given"}
    /\ Len(files) <= MaxFiles
    /\ pc # "given" => Len(raw) = Len(routes)

(***************************************************************************)
(* Properties of the run.                                                  *)
(***************************************************************************)
Analysed == pc \in {"start", "done"}
Assembled == pc \in {"done", "given"}
NoRoots == cfg.autoroutesRoot = <<>> /\ cfg.autorouterRoot = <<>>

\* records i and j of routes land on the same operation of the document
SameOperation(i, j) ==
    /\ routes[i].method = routes[j].method
    /\ toOpenApiPath(routes[i].path) = toOpenApiPath(routes[j].path)

\* record i is the one its operation was last written from
IsLast(i) == \A j \in (i + 1)..Len(routes) : ~SameOperation(i, j)

OperationOf(i) == doc[toOpenApiPath(routes[i].path)][routes[i].method]

sCode200 == <<"2", "0", "0">>
sCode422 == <<"4", "2", "2">>
kId == <<"/", "{", "i", "d", "}">>
kAB == <<"/", "{", "a", "}", "/", "{", "b", "}">>

\* {type: object, properties: {user: {type: string}}, required: [user]}
UserObjectSchema ==
    ObjectSchema(<<[name |-> sUser, value |-> TypeSchema("string")]>>, <<sUser>>)

\* C1: the run over the one file examples/routes/users/route.ts, which holds
\* app.get('/:id', (c) => c.json({ user: c.req.param('id') })), with no
\* convention configured, ends with paths['/{id}']['get'] carrying exactly
\* one required path parameter id and a '200' response whose
\* application/json schema is the object schema with the required string
\* property user.
ClaimC1 ==
    (pc = "done" /\ NoRoots /\ files = <<fUsersRoute>>) =>
        /\ kId \in DOMAIN doc
        /\ "get" \in DOMAIN doc[kId]
        /\ Len(doc[kId]["get"].parameters) = 1
        /\ doc[kId]["get"].parameters[1].name = sId
        /\ doc[kId]["get"].parameters[1].in = "path"
        /\ doc[kId]["get"].parameters[1].required
        /\ sCode200 \in DOMAIN doc[kId]["get"].responses
        /\ doc[kId]["get"].responses[sCode200].content
             = <<[name |-> "application/json", value |-> UserObjectSchema]>>

\* C2: in every assembled document each record has its operation, every
\* operation has a non-empty responses map, and the operation of a record
\* without collected responses has exactly the entry '200' with description
\* 'OK' (and no content when the record has no response schema or type text).
InvC2 ==
    Assembled =>
        /\ \A i \in 1..Len(routes) :
              /\ toOpenApiPath(routes[i].path) \in DOMAIN doc
              /\ routes[i].method \in DOMAIN doc[toOpenApiPath(routes[i].path)]
        /\ \A k \in DOMAIN doc : \A m \in DOMAIN doc[k] : DOMAIN doc[k][m].responses # {}
        /\ \A i \in 1..Len(routes) :
              (IsLast(i) /\ routes[i].responses = <<>>) =>
                  /\ DOMAIN OperationOf(i).responses = {sCode200}
                  /\ OperationOf(i).responses[sCode200].description = "OK"
                  /\ OperationOf(i).responses[sCode200].headers = <<>>
                  /\ (routes[i].responseSchema = <<>> /\ routes[i].responseTypeText = <<>>)
                        => OperationOf(i).responses[sCode200].content = <<>>

\* a document holding the operation of a record for which the analysis of a
\* file found no response (a handler passed by name)
WitnessC2 ==
    /\ pc = "done"
    /\ \E i \in 1..Len(routes) :
          /\ raw[i].file = fHealth /\ raw[i].path = lHealth
          /\ routes[i].responses = <<>>
          /\ IsLast(i)
          /\ DOMAIN OperationOf(i).responses = {sCode200}

\* the registrations whose handler body holds c.json(x, 200) and c.json(err, 422)
IsMultiStatus(i) ==
    \/ raw[i].file = fRootRoute /\ raw[i].path = lMulti
    \/ raw[i].file = fUsersRoutes /\ raw[i].path = lCond

\* C3: the record of a handler holding c.json(x, 200) and then
\* c.json(err, 422) has exactly two responses, 200 with x's schema first and
\* 422 with err's schema second, and once the document is assembled its
\* operation has the keys '200' and '422'.
InvC3 ==
    Analysed =>
        \A i \in 1..Len(routes) :
            IsMultiStatus(i) =>
                /\ Len(routes[i].responses) = 2
                /\ routes[i].responses[1].status = 200
                /\ routes[i].responses[1].schema = <<typeToSchema(tOkObj)>>
                /\ routes[i].responses[2].status = 422
                /\ routes[i].responses[2].schema = <<typeToSchema(tErrorObj)>>
                /\ (pc = "done" /\ IsLast(i)) =>
                      {sCode200, sCode422} \subseteq DOMAIN OperationOf(i).responses

\* a document assembled from a multi-status handler
WitnessC3 ==
    /\ pc = "done"
    /\ \E i \in 1..Len(routes) :
          /\ IsMultiStatus(i)
          /\ IsLast(i)
          /\ DOMAIN OperationOf(i).responses = {sCode200, sCode422}

\* the positions of p at which a ':name' token begins
TokenStarts(p) == {i \in 1..(Len(p) - 1) : p[i] = ":" /\ IsWordChar(p[i + 1])}

\* the last position of the run of name characters that holds position j
RECURSIVE NameEnd(_, _)
NameEnd(p, j) == IF j < Len(p) /\ IsWordChar(p[j + 1]) THEN NameEnd(p, j + 1) ELSE j

\* the number of tokens of p that end before position j
ClosedBefore(p, j) == Cardinality({i \in TokenStarts(p) : NameEnd(p, i + 1) < j})

\* k is p with every ':name' written as '{name}' and nothing else changed:
\* each token's colon is an opening brace, a closing brace follows its name,
\* and every other character of p is kept, in order
IsBraceForm(p, k) ==
    /\ Len(k) = Len(p) + Cardinality(TokenStarts(p))
    /\ \A j \in 1..Len(p) :
          k[j + ClosedBefore(p, j)] = IF j \in TokenStarts(p) THEN "{" ELSE p[j]
    /\ \A i \in TokenStarts(p) :
          k[NameEnd(p, i + 1) + ClosedBefore(p, NameEnd(p, i + 1)) + 1] = "}"

\* C4: the path keys of the assembled document are exactly the brace forms
\* of the records' paths, each holding the record's method, and no key
\* holds a ':name' token.
InvC4 ==
    Assembled =>
        /\ \A i \in 1..Len(routes) :
              \E k \in DOMAIN doc :
                  IsBraceForm(routes[i].path, k) /\ routes[i].method \in DOMAIN doc[k]
        /\ \A k \in DOMAIN doc :
              /\ TokenStarts(k) = {}
              /\ \E i \in 1..Len(routes) : IsBraceForm(routes[i].path, k)

\* a document with the key of a path of two tokens
WitnessC4 ==
    /\ pc = "done"
    /\ \E i \in 1..Len(routes) : routes[i].path = lAB
    /\ kAB \in DOMAIN doc

AutoroutesOnly == cfg.autoroutesRoot # <<>> /\ cfg.autorouterRoot = <<>>

\* f takes part in Convention A under root
Participates(root, f) == f[Len(f)] \in {sRouteTs, sRouteTsx} /\ IsUnder(root, f)

\* '/' and the directory segments joined by '/'; '/' for no segment
RECURSIVE SlashEach(_)
SlashEach(segs) ==
    IF segs = <<>> THEN <<>> ELSE <<"/">> \o Head(segs) \o SlashEach(Tail(segs))

ExpectedPrefix(root, f) ==
    IF DirsBelow(root, f) = <<>> THEN <<"/">> ELSE SlashEach(DirsBelow(root, f))

\* C8: in a run with only Convention A configured, the records of a file
\* named route.ts or route.tsx under the root carry the registered path
\* joined to '/' + the relative directory segments ('/users/:id' for
\* users/route.ts registering '/:id'); the records of every other file keep
\* their registered path and have no middlewareScopes.
InvC8 ==
    (Analysed /\ AutoroutesOnly) =>
        \A i \in 1..Len(routes) :
            IF Participates(cfg.autoroutesRoot[1], raw[i].file)
            THEN /\ routes[i].path
                      = joinRoutePaths(<<ExpectedPrefix(cfg.autoroutesRoot[1], raw[i].file)>>,
                                       raw[i].path)
                 /\ (cfg.autoroutesRoot[1] = RootDir /\ raw[i].file = fUsersRoute)
                       => routes[i].path = pUsersId
            ELSE /\ routes[i].path = raw[i].path
                 /\ routes[i].middlewareScopes = <<>>

\* users/route.ts under the root and a file that does not take part
WitnessC8 ==
    /\ AutoroutesOnly /\ cfg.autoroutesRoot[1] = RootDir
    /\ Len(routes) >= 2
    /\ raw[1].file = fUsersRoute /\ raw[1].path = lId /\ routes[1].path = pUsersId
    /\ raw[2].file = fUsersRoutes /\ routes[2].path = lId
    /\ routes[2].middlewareScopes = <<>>

\* the paths that one convention alone, or none, gives record i
SingleRewrites(i) ==
    {raw[i].path}
      \cup (IF cfg.autoroutesRoot # <<>>
               /\ Participates(cfg.autoroutesRoot[1], raw[i].file)
            THEN {joinRoutePaths(<<ExpectedPrefix(cfg.autoroutesRoot[1], raw[i].file)>>,
                                 raw[i].path)}
            ELSE {})
      \cup (IF cfg.autorouterRoot # <<>>
               /\ computeAutorouterPath(cfg.autorouterRoot[1], raw[i].file) # <<>>
            THEN {joinRoutePaths(computeAutorouterPath(cfg.autorouterRoot[1], raw[i].file),
                                 raw[i].path)}
            ELSE {})

\* C10: in every run each record's path is its registered path, or that
\* path rewritten by Convention A alone, or by Convention B alone; with no
\* root configured it is the registered path.
ClaimC10 ==
    Analysed =>
        \A i \in 1..Len(routes) :
            /\ routes[i].path \in SingleRewrites(i)
            /\ NoRoots => routes[i].path = raw[i].path

(***************************************************************************)
(* Middleware scopes of Convention A.                                      *)
(***************************************************************************)
\* the directories from the directory of file f up to root, both inclusive
ChainDirs(root, f) ==
    IF IsUnder(root, f) THEN {SubSeq(f, 1, n) : n \in Len(root)..(Len(f) - 1)} ELSE {}

\* the prefix of directory d at or below root
ScopePrefix(root, d) ==
    IF Len(d) = Len(root) THEN <<"/">> ELSE SlashEach(SubSeq(d, Len(root) + 1, Len(d)))

\* prefix p is that of a proper ancestor of the directory with prefix q
IsAncestorPrefix(p, q) == p # q /\ (p = <<"/">> \/ StartsWith(q, p \o <<"/">>))

\* C11: the scope list attached to a record holds exactly the prefixes of
\* the directories from the route file's directory up to the root that
\* contain a middleware.ts, each once, and the prefix of a proper ancestor
\* precedes that of its descendant ('/' before '/users').
ClaimC11 ==
    Analysed =>
        \A i \in 1..Len(routes) :
            routes[i].middlewareScopes # <<>> =>
                /\ {routes[i].middlewareScopes[1][j] :
                        j \in 1..Len(routes[i].middlewareScopes[1])}
                     = {ScopePrefix(cfg.autoroutesRoot[1], d) :
                            d \in ChainDirs(cfg.autoroutesRoot[1], raw[i].file) \cap fsys}
                /\ \A j, k \in 1..Len(routes[i].middlewareScopes[1]) :
                       j < k => /\ routes[i].middlewareScopes[1][j]
                                     # routes[i].middlewareScopes[1][k]
                                /\ ~IsAncestorPrefix(routes[i].middlewareScopes[1][k],
                                                     routes[i].middlewareScopes[1][j])

(***************************************************************************)
(* The synthesizer called from outside, one expression type at a time:     *)
(* arg holds the types given so far and res what each call gave.           *)
(***************************************************************************)
MaxCalls == 2

TypeIds == DOMAIN TypeTable

InitSchema == IdleRun /\ IdleDocs /\ fn = "typeToSchema" /\ arg = <<>> /\ res = <<>>

ApplyTypeToSchema ==
    /\ fn = "typeToSchema"
    /\ Len(arg) < MaxCalls
    /\ \E t \in TypeIds :
           /\ arg' = Append(arg, t)
           /\ res' = Append(res, typeToSchemaSeen(t, {}, 1))
    /\ UNCHANGED <<docsVars, pc, cfg, fsys, files, raw, routes, doc, fn>>

NextSchema == ApplyTypeToSchema

SpecSchema == InitSchema /\ [][NextSchema]_vars

\* the members of union t that are neither null nor undefined
NonNullish(t) == SelectSeq(TypeTable[t].members, LAMBDA m : ~isNullish(m))

HasNullish(t) == \E i \in 1..Len(TypeTable[t].members) : isNullish(TypeTable[t].members[i])

\* t is T | null, T | undefined or T | null | undefined for a single T
IsNullableOfOne(t) == "Union" \in TypeTable[t].flags /\ Len(NonNullish(t)) = 1

\* C12: for a union whose members other than null and undefined are one
\* type T, typeToSchema returns the schema of T with nullable true when a
\* null or undefined member is present, and no anyOf; string | undefined
\* gives {type: string, nullable: true}.
InvC12 ==
    \A i \in 1..Len(res) :
        IsNullableOfOne(arg[i]) =>
            /\ ~res[i].overflow
            /\ ~res[i].schema.hasAnyOf
            /\ res[i].schema.nullable = HasNullish(arg[i])
            /\ [res[i].schema EXCEPT !.nullable = FALSE]
                 = [typeToSchema(NonNullish(arg[i])[1]) EXCEPT !.nullable = FALSE]
            /\ arg[i] = tOptString
                 => res[i].schema = [TypeSchema("string") EXCEPT !.nullable = TRUE]

\* string | undefined and an optional object type have been synthesized
WitnessC12 ==
    /\ Len(res) = 2
    /\ arg[1] = tOptString /\ res[1].schema.type = "string" /\ res[1].schema.nullable
    /\ arg[2] = tOptUserObj /\ res[2].schema.type = "object" /\ res[2].schema.nullable

\* C13: typeToSchema returns (it does not exhaust the call stack) for every
\* type, whichever kind of edge a cycle of the type graph passes through:
\* object property, array element type or union member.
ClaimC13 == \A i \in 1..Len(res) : ~res[i].overflow

\* the schema when the cycle guard holds the types being expanded, that
\* is the ancestors of the position, and nothing else
RECURSIVE SchemaByAncestors(_, _)
RECURSIVE PropsByAncestors(_, _)
PropsByAncestors(props, anc) ==
    IF props = <<>> THEN <<>>
    ELSE PutKey(PropsByAncestors(SubSeq(props, 1, Len(props) - 1), anc),
                props[Len(props)].name, SchemaByAncestors(props[Len(props)].ty, anc))

RequiredNames(props) ==
    SelectSeq([i \in 1..Len(props) |-> IF props[i].optional THEN <<>> ELSE props[i].name],
              LAMBDA n : n # <<>>)

SchemaByAncestors(t, anc) ==
    IF IsNullableOfOne(t)
    THEN [SchemaByAncestors(NonNullish(t)[1], anc) EXCEPT !.nullable = HasNullish(t) \/ @]
    ELSE IF "Union" \in TypeTable[t].flags
    THEN [NoSchema EXCEPT
            !.hasAnyOf = TRUE,
            !.anyOf = Dedup([i \in 1..Len(NonNullish(t)) |->
                                SchemaByAncestors(NonNullish(t)[i], anc)]),
            !.nullable = HasNullish(t)]
    ELSE IF isStringType(t) THEN TypeSchema("string")
    ELSE IF isNumberType(t) THEN TypeSchema("number")
    ELSE IF isBooleanType(t) THEN TypeSchema("boolean")
    ELSE IF TypeTable[t].index # <<>>
    THEN ArraySchema(SchemaByAncestors(TypeTable[t].index[1], anc))
    ELSE IF "Object" \in TypeTable[t].flags
    THEN IF t \in anc THEN DescriptionSchema(<<"...recursive...">>)
         ELSE ObjectSchema(PropsByAncestors(TypeTable[t].props, anc \cup {t}),
                           RequiredNames(TypeTable[t].props))
    ELSE DescriptionSchema(<<"Unparsed type: ", TypeTable[t].str>>)

\* C14: the '...recursive...' leaf stands exactly where an object type
\* occurs inside its own expansion; an object type that occurs again
\* outside it (the type of two sibling properties) is expanded in full at
\* each occurrence.
ClaimC14 ==
    \A i \in 1..Len(res) :
        ~res[i].overflow => res[i].schema = SchemaByAncestors(arg[i], {})

(***************************************************************************)
(* The assembled document.                                                 *)
(***************************************************************************)
\* C15: routesToOpenAPI applied to no record returns a document whose paths
\* map is empty.
InvC15 == (Assembled /\ routes = <<>>) => DOMAIN doc = {}

\* a run whose entry patterns match no file, and a caller's empty list
WitnessC15 == pc \in {"done", "given"} /\ routes = <<>> /\ DOMAIN doc = {}

\* the records of routes that came from file f, in their order
RECURSIVE RecordsOfFile(_, _)
RecordsOfFile(f, i) ==
    IF i > Len(routes) THEN <<>>
    ELSE (IF raw[i].file = f THEN <<routes[i]>> ELSE <<>>) \o RecordsOfFile(f, i + 1)

\* the per-file record sequences concatenated in the order fs of the files
RECURSIVE ConcatRecords(_)
ConcatRecords(fs) ==
    IF fs = <<>> THEN <<>> ELSE RecordsOfFile(Head(fs), 1) \o ConcatRecords(Tail(fs))

\* the orders in which n per-file sequences can be concatenated
Orders(n) == {p \in [1..n -> 1..n] : \A i, j \in 1..n : p[i] = p[j] => i = j}

\* C16: the document assembled from the per-file record sequences is the
\* same in whichever order they are concatenated, also when two files
\* register the same path and method.  (Documents are compared as JSON
\* values, whatever the order of their keys.)
ClaimC16 ==
    pc = "done" =>
        \A p \in Orders(Len(files)) :
            routesToOpenAPI(ConcatRecords([i \in 1..Len(files) |-> files[p[i]]])) = doc

(***************************************************************************)
(* Route recognition.                                                      *)
(***************************************************************************)
\* node n is a call <receiver>.<method>('<path>', ...) with an HTTP method name
IsRegistration(n) ==
    /\ n.kind = "Call"
    /\ n.kids[1].kind = "PropAccess"
    /\ n.kids[1].kids[2].text \in {"get", "post", "put", "patch", "delete", "options", "head"}
    /\ Len(n.kids) >= 2
    /\ n.kids[2].kind = "StringLit"

\* the method and path of the records of routes from position i on that came from f
RECURSIVE RecognisedIn(_, _)
RecognisedIn(f, i) ==
    IF i > Len(routes) THEN <<>>
    ELSE (IF raw[i].file = f
          THEN <<[method |-> routes[i].method, path |-> raw[i].path]>> ELSE <<>>)
         \o RecognisedIn(f, i + 1)

\* the method name and path literal of registration n
RegistrationOf(n) == [method |-> n.kids[1].kids[2].text, path |-> n.kids[2].val]

\* the method name and path literal of the registrations among nodes, in order
RegistrationsEach(regs) == [i \in 1..Len(regs) |-> RegistrationOf(regs[i])]
RegistrationsAmong(nodes) == RegistrationsEach(SelectSeq(nodes, IsRegistration))

\* C17: the records of a file are, in depth-first pre-order, one for each
\* call whose callee is a property access named after an HTTP method and
\* whose first argument is a string literal, whatever the receiver and also
\* inside another registration's handler; no other node gives a record.
InvC17 ==
    Analysed =>
        \A k \in 1..Len(files) :
            RecognisedIn(files[k], 1) = RegistrationsAmong(PreOrder(SourceOf(files[k])))

\* the file with a registration and a cache.get('key') inside a handler, a
\* path that is no literal, a bare get(...), app.all(...) and app.get()
WitnessC17 ==
    /\ Analysed /\ files # <<>> /\ files[1] = fAdmin
    /\ RecognisedIn(fAdmin, 1)
         = <<[method |-> "get", path |-> lOuter], [method |-> "get", path |-> lKey],
             [method |-> "post", path |-> lInner], [method |-> "put", path |-> lSame],
             [method |-> "patch", path |-> lMoved], [method |-> "post", path |-> lStatus],
             [method |-> "delete", path |-> lGone], [method |-> "get", path |-> lPlain]>>

(***************************************************************************)
(* Responses that resolve to one status code.                              *)
(***************************************************************************)
\* the key a collected response is entered under
CodeOf(respItem) == NumberToString(IF respItem.status = 0 THEN 200 ELSE respItem.status)

\* the last response of rs entered under code
LastWithCode(rs, code) ==
    rs[CHOOSE j \in 1..Len(rs) :
           /\ CodeOf(rs[j]) = code
           /\ \A k \in (j + 1)..Len(rs) : CodeOf(rs[k]) # code]

\* responses j and k of record i are entered under one code
Collide(i, j, k) ==
    /\ j < k /\ k <= Len(routes[i].responses)
    /\ CodeOf(routes[i].responses[j]) = CodeOf(routes[i].responses[k])

\* C18: an operation built from a record with collected responses has one
\* entry per status code the responses resolve to, and each entry is the
\* response object of the last response with that code alone: headers and
\* content of earlier responses with the code are not kept
InvC18 ==
    Assembled =>
        \A i \in 1..Len(routes) :
            (IsLast(i) /\ routes[i].responses # <<>>) =>
                /\ DOMAIN OperationOf(i).responses
                     = {CodeOf(routes[i].responses[j]) : j \in 1..Len(routes[i].responses)}
                /\ \A code \in DOMAIN OperationOf(i).responses :
                       OperationOf(i).responses[code]
                         = ResponseObject(LastWithCode(routes[i].responses, code))

\* a text and a json response both under 200 leave the json content alone, and
\* a redirect and a json response both under 301 leave no Location header
WitnessC18 ==
    /\ Assembled
    /\ \E i \in 1..Len(routes) :
           /\ IsLast(i) /\ routes[i].path = lSame /\ Collide(i, 1, 2)
           /\ routes[i].responses[1].mediaType = <<"text/plain">>
           /\ DOMAIN OperationOf(i).responses = {sCode200}
           /\ OperationOf(i).responses[sCode200].content
                = <<[name |-> "application/json", value |-> routes[i].responses[2].schema[1]]>>
    /\ \E i \in 1..Len(routes) :
           /\ IsLast(i) /\ routes[i].path = lMoved /\ Collide(i, 1, 2)
           /\ routes[i].responses[1].headers # <<>>
           /\ OperationOf(i).responses[<<"3", "0", "1">>].headers = <<>>
           /\ OperationOf(i).responses[<<"3", "0", "1">>].content # <<>>

(***************************************************************************)
(* Status resolution.                                                      *)
(***************************************************************************)
\* the type of e is a union whose members are all numeric literal types
IsNumericUnion(e) ==
    /\ e.ty # ""
    /\ "Union" \in TypeTable[e.ty].flags
    /\ \A k \in 1..Len(TypeTable[e.ty].members) :
           "NumberLiteral" \in TypeTable[TypeTable[e.ty].members[k]].flags

\* nothing numeric is known of e: no literal, no member access and a type
\* without numeric literal types
IsUnresolvable(e) ==
    /\ e.kind \in {"Ident", "ObjLit", "StringLit"}
    /\ "NumberLiteral" \notin TypeTable[TypeAt(e)].flags
    /\ \/ "Union" \notin TypeTable[TypeAt(e)].flags
       \/ \A k \in 1..Len(TypeTable[TypeAt(e)].members) :
              "NumberLiteral" \notin TypeTable[TypeTable[TypeAt(e)].members[k]].flags

\* the status argument statusArg, which is optional, is one of the three cases
StatusCase(statusArg) ==
    \/ statusArg = <<>>
    \/ statusArg[1].kind = "NumLit"
    \/ IsNumericUnion(statusArg[1])
    \/ IsUnresolvable(statusArg[1])

\* the statuses recorded for a call with that status argument
StatusesFor(statusArg) ==
    IF statusArg = <<>> THEN <<200>>
    ELSE IF statusArg[1].kind = "NumLit" THEN <<statusArg[1].val>>
    ELSE IF IsNumericUnion(statusArg[1])
    THEN Dedup([k \in 1..Len(TypeTable[statusArg[1].ty].members) |->
                   TypeTable[TypeTable[statusArg[1].ty].members[k]].value])
    ELSE <<200>>

\* node n is a json, text, html or body call
IsBodyCall(n) ==
    /\ n.kind = "Call"
    /\ n.kids[1].kind = "PropAccess"
    /\ n.kids[1].kids[2].text \in {"json", "text", "html", "body"}

\* the statuses of the responses found, unset taken as 200
StatusesFound(found) ==
    [k \in 1..Len(found) |-> IF found[k].status = <<>> THEN 200 ELSE found[k].status[1]]

\* the statuses node n of a handler with parameter paramName adds to the
\* handler's record: by the three cases where n is a json, text, html or
\* body call that yields responses, as found otherwise
StatusesAt(n, paramName) ==
    IF /\ IsBodyCall(n)
       /\ ResponsesAt(n, paramName, <<>>) # <<>>
       /\ StatusCase(ArgAt(n, 2))
    THEN StatusesFor(ArgAt(n, 2))
    ELSE StatusesFound(ResponsesAt(n, paramName, <<>>))

RECURSIVE StatusesAmong(_, _)
StatusesAmong(nodes, paramName) ==
    IF nodes = <<>> THEN <<>>
    ELSE StatusesAt(Head(nodes), paramName) \o StatusesAmong(Tail(nodes), paramName)

\* the statuses expected in the record of registration reg
StatusesOfRegistration(reg) ==
    IF HandlerBody(ArgAt(reg, 2)) = <<>> THEN <<>>
    ELSE StatusesAmong(OfKinds(Below(HandlerBody(ArgAt(reg, 2))[1]), {"Call", "Return"}),
                       HandlerParamName(ArgAt(reg, 2)))

\* the positions in routes of the records that came from f
PositionsOf(f) == SelectSeq([i \in 1..Len(routes) |-> i], LAMBDA i : raw[i].file = f)

\* the statuses of the responses of record i
StatusesOfRecord(i) ==
    [k \in 1..Len(routes[i].responses) |-> routes[i].responses[k].status]

RegistrationsOf(f) == SelectSeq(PreOrder(SourceOf(f)), IsRegistration)

\* C19: in the record of a registration, a json, text, html or body call
\* gives one response with the status of a numeric literal argument, one
\* response per distinct member, in member order, of an argument whose type
\* is a union of numeric literal types, and one response with status 200
\* when there is no status argument or nothing numeric is known of it
InvC19 ==
    Analysed =>
        \A k \in 1..Len(files) :
            /\ Len(PositionsOf(files[k])) = Len(RegistrationsOf(files[k]))
            /\ \A r \in 1..Len(PositionsOf(files[k])) :
                   StatusesOfRecord(PositionsOf(files[k])[r])
                     = StatusesOfRegistration(RegistrationsOf(files[k])[r])

\* c.text(.., 201), c.html(.., status) with status: 400 | 422, c.body(.., code)
\* with code: number and c.json(.., status) in one handler
WitnessC19 ==
    /\ Analysed
    /\ \E i \in 1..Len(routes) :
           /\ raw[i].path = lStatus
           /\ StatusesOfRecord(i) = <<201, 400, 422, 200, 400, 422>>
           /\ routes[i].responses[2].mediaType = <<"text/html">>
           /\ routes[i].responses[4].mediaType = <<"text/plain">>

(***************************************************************************)
(* Responses without a body.                                               *)
(***************************************************************************)
\* node n is a notFound or redirect call
IsBodilessCall(n) ==
    /\ n.kind = "Call"
    /\ n.kids[1].kind = "PropAccess"
    /\ n.kids[1].kids[2].text \in {"notFound", "redirect"}

\* the status argument of notFound(status?) and of redirect(url, status?)
StatusArgOf(n) == IF n.kids[1].kids[2].text = "notFound" THEN ArgAt(n, 1) ELSE ArgAt(n, 2)

\* the status argument of n is absent or a numeric literal
StatusGivenOrAbsent(n) == StatusArgOf(n) = <<>> \/ StatusArgOf(n)[1].kind = "NumLit"

\* the response of a record: status, schema, media type and headers
Recorded(status, schema, mediaType, headers) ==
    [status |-> status, schema |-> schema, mediaType |-> mediaType, headers |-> headers]

\* the response a notFound or redirect call n is recorded as
BodilessRecorded(n) ==
    IF n.kids[1].kids[2].text = "notFound"
    THEN Recorded(IF StatusArgOf(n) = <<>> THEN 404 ELSE StatusArgOf(n)[1].val,
                  <<>>, <<>>, <<>>)
    ELSE Recorded(IF StatusArgOf(n) = <<>> THEN 302 ELSE StatusArgOf(n)[1].val,
                  <<>>, <<>>, <<LocationHeaders>>)

\* what is found, as analyzeSource records it
RecordedFound(found) ==
    [k \in 1..Len(found) |->
        Recorded(IF found[k].status = <<>> THEN 200 ELSE found[k].status[1],
                 found[k].schema, found[k].mediaType, found[k].headers)]

\* the responses node n adds to the handler's record: the bodiless one where n
\* is a notFound or redirect call on the context, as found otherwise
RecordedAt(n, paramName, explicitContentType) ==
    IF /\ IsBodilessCall(n)
       /\ ResponsesAt(n, paramName, explicitContentType) # <<>>
       /\ StatusGivenOrAbsent(n)
    THEN <<BodilessRecorded(n)>>
    ELSE RecordedFound(ResponsesAt(n, paramName, explicitContentType))

RECURSIVE RecordedAmong(_, _, _)
RecordedAmong(nodes, paramName, explicitContentType) ==
    IF nodes = <<>> THEN <<>>
    ELSE RecordedAt(Head(nodes), paramName, explicitContentType)
         \o RecordedAmong(Tail(nodes), paramName, explicitContentType)

\* the responses expected in the record of registration reg
RecordedOfRegistration(reg) ==
    IF HandlerBody(ArgAt(reg, 2)) = <<>> THEN <<>>
    ELSE RecordedAmong(OfKinds(Below(HandlerBody(ArgAt(reg, 2))[1]), {"Call", "Return"}),
                       HandlerParamName(ArgAt(reg, 2)),
                       findExplicitContentType(HandlerBody(ArgAt(reg, 2))[1],
                                               HandlerParamName(ArgAt(reg, 2))))

\* response k of record i has no schema and is the last of the record with its code
IsLastBodiless(i, k) ==
    /\ routes[i].responses[k].schema = <<>>
    /\ \A m \in (k + 1)..Len(routes[i].responses) :
           CodeOf(routes[i].responses[m]) # CodeOf(routes[i].responses[k])

\* C20: notFound(status?) is recorded with the given status, 404 without
\* one, and without schema, media type or headers; redirect(url, status?)
\* is recorded with the given status, 302 without one, without schema and
\* with the Location header schema; a response without schema is entered in
\* the operation without content
ClaimC20 ==
    /\ Analysed =>
          \A k \in 1..Len(files) :
              \A r \in 1..Len(PositionsOf(files[k])) :
                  routes[PositionsOf(files[k])[r]].responses
                    = RecordedOfRegistration(RegistrationsOf(files[k])[r])
    /\ Assembled =>
          \A i \in 1..Len(routes) :
              IsLast(i) =>
                  \A k \in 1..Len(routes[i].responses) :
                      IsLastBodiless(i, k) =>
                          OperationOf(i).responses[CodeOf(routes[i].responses[k])].content = <<>>

(***************************************************************************)
(* The explicit content type.                                              *)
(***************************************************************************)
\* the values of the content-type header calls among nodes before position k
EarlierContentTypes(nodes, k, paramName) ==
    {ContentTypeAt(<<>>, nodes[j], paramName) :
        j \in {i \in 1..(k - 1) : ContentTypeAt(<<>>, nodes[i], paramName) # <<>>}}

\* the media types a response of node k may have: for a json, text, html or
\* body call the value of an earlier content-type header call if there is
\* one and the call's default otherwise; for any other node what was found
MediaTypesAt(nodes, k, paramName, explicitContentType) ==
    IF IsBodyCall(nodes[k]) /\ ResponsesAt(nodes[k], paramName, <<>>) # <<>>
    THEN IF EarlierContentTypes(nodes, k, paramName) # {}
         THEN EarlierContentTypes(nodes, k, paramName)
         ELSE {ResponsesAt(nodes[k], paramName, <<>>)[1].mediaType}
    ELSE {ResponsesAt(nodes[k], paramName, explicitContentType)[j].mediaType :
             j \in 1..Len(ResponsesAt(nodes[k], paramName, explicitContentType))}

\* one set of media types per response found from position k on
RECURSIVE MediaTypesFrom(_, _, _, _)
MediaTypesFrom(nodes, k, paramName, explicitContentType) ==
    IF k > Len(nodes) THEN <<>>
    ELSE [j \in 1..Len(ResponsesAt(nodes[k], paramName, <<>>)) |->
             MediaTypesAt(nodes, k, paramName, explicitContentType)]
         \o MediaTypesFrom(nodes, k + 1, paramName, explicitContentType)

\* one set of media types per response expected in the record of registration reg
MediaTypesOfRegistration(reg) ==
    IF HandlerBody(ArgAt(reg, 2)) = <<>> THEN <<>>
    ELSE MediaTypesFrom(OfKinds(Below(HandlerBody(ArgAt(reg, 2))[1]), {"Call", "Return"}), 1,
                        HandlerParamName(ArgAt(reg, 2)),
                        findExplicitContentType(HandlerBody(ArgAt(reg, 2))[1],
                                                HandlerParamName(ArgAt(reg, 2))))

\* the responses have, one by one, a media type of sets
MediaTypesWithin(responses, sets) ==
    /\ Len(responses) = Len(sets)
    /\ \A j \in 1..Len(responses) : responses[j].mediaType \in sets[j]

\* C21: the media type of a json, text, html or body response is the value
\* of a content-type header call that comes earlier in the handler body than
\* the response call when there is such a call, and the default of the
\* response call when there is none
ClaimC21 ==
    Analysed =>
        \A k \in 1..Len(files) :
            \A r \in 1..Len(PositionsOf(files[k])) :
                MediaTypesWithin(routes[PositionsOf(files[k])[r]].responses,
                                 MediaTypesOfRegistration(RegistrationsOf(files[k])[r]))

(***************************************************************************)
(* The receiver of a response call.                                        *)
(***************************************************************************)
\* node n is a json, text, html, body, notFound or redirect call
IsResponseCall(n) ==
    /\ n.kind = "Call"
    /\ n.kids[1].kind = "PropAccess"
    /\ n.kids[1].kids[2].text \in {"json", "text", "html", "body", "notFound", "redirect"}

\* the receiver of call n without parentheses and casts
ReceiverOf(n) == stripParensAndCasts(n.kids[1].kids[1])

\* e is the identifier p or a property chain that starts at it
RECURSIVE RootedAt(_, _)
RootedAt(e, p) ==
    IF e.kind = "Ident" THEN e.text = p
    ELSE IF e.kind = "PropAccess" THEN RootedAt(stripParensAndCasts(e.kids[1]), p)
    ELSE FALSE

\* the number of responses call n gives on the context: none for json
\* without a value, one per status otherwise
CountOnContext(n) == Len(CallResponses(n, <<>>))

\* the number of responses node n adds to the record of a handler whose
\* parameter name is paramName (optional)
CountAt(n, paramName) ==
    IF ~IsResponseCall(n) THEN Len(ResponsesAt(n, paramName, <<>>))
    ELSE IF paramName = <<>> THEN CountOnContext(n)
    ELSE IF ReceiverOf(n).kind = "Ident"
         THEN IF ReceiverOf(n).text = paramName[1] THEN CountOnContext(n) ELSE 0
    ELSE IF ~RootedAt(ReceiverOf(n), paramName[1]) THEN 0
    ELSE Len(ResponsesAt(n, paramName, <<>>))

RECURSIVE CountAmong(_, _)
CountAmong(nodes, paramName) ==
    IF nodes = <<>> THEN 0
    ELSE CountAt(Head(nodes), paramName) + CountAmong(Tail(nodes), paramName)

\* the first parameter of the handler of registration reg is a plain identifier
HasParamName(reg) ==
    /\ ArgAt(reg, 2) # <<>>
    /\ ArgAt(reg, 2)[1].kind \in {"Arrow", "FuncExpr"}
    /\ Len(ArgAt(reg, 2)[1].kids) >= 2
    /\ ArgAt(reg, 2)[1].kids[1].kids[1].kind = "Ident"

ParamNameOf(reg) ==
    IF HasParamName(reg) THEN <<ArgAt(reg, 2)[1].kids[1].kids[1].text>> ELSE <<>>

\* the number of responses expected in the record of registration reg
CountOfRegistration(reg) ==
    IF HandlerBody(ArgAt(reg, 2)) = <<>> THEN 0
    ELSE CountAmong(OfKinds(Below(HandlerBody(ArgAt(reg, 2))[1]), {"Call", "Return"}),
                    ParamNameOf(reg))

\* C22: with a handler whose first parameter is a plain identifier p, a
\* json, text, html, body, notFound or redirect call on p adds its responses
\* to the record, and such a call on another identifier, or on a receiver
\* that is no property chain from p, adds none; with a handler without a
\* parameter name such a call adds its responses whatever its receiver
InvC22 ==
    Analysed =>
        \A k \in 1..Len(files) :
            \A r \in 1..Len(PositionsOf(files[k])) :
                Len(routes[PositionsOf(files[k])[r]].responses)
                  = CountOfRegistration(RegistrationsOf(files[k])[r])

\* (c) => reply.json(..) gave no response; ({ req }) => reply.json(..) and
\* () => reply.text(..) gave one each
WitnessC22 ==
    /\ Analysed
    /\ \E i \in 1..Len(routes) : raw[i].path = lAB /\ routes[i].responses = <<>>
    /\ \E i \in 1..Len(routes) : raw[i].path = lPick /\ Len(routes[i].responses) = 1
    /\ \E i \in 1..Len(routes) : raw[i].path = lNone /\ Len(routes[i].responses) = 1

(***************************************************************************)
(* Calls that read the request.                                            *)
(***************************************************************************)
\* the number of responses node n adds when only calls on the parameter
\* itself count: a response call on anything else than an identifier adds none
CountOnItselfAt(n, paramName) ==
    IF IsResponseCall(n) /\ paramName # <<>> /\ ReceiverOf(n).kind # "Ident" THEN 0
    ELSE Len(ResponsesAt(n, paramName, <<>>))

RECURSIVE CountOnItselfAmong(_, _)
CountOnItselfAmong(nodes, paramName) ==
    IF nodes = <<>> THEN 0
    ELSE CountOnItselfAt(Head(nodes), paramName) + CountOnItselfAmong(Tail(nodes), paramName)

CountOnItselfOfRegistration(reg) ==
    IF HandlerBody(ArgAt(reg, 2)) = <<>> THEN 0
    ELSE CountOnItselfAmong(OfKinds(Below(HandlerBody(ArgAt(reg, 2))[1]), {"Call", "Return"}),
                            ParamNameOf(reg))

\* C23: with a handler whose parameter name p is known, a call on a
\* sub-object of the context such as p.req.text(), p.req.json() or
\* p.req.body(...) adds no response to the record; only calls on p itself do
ClaimC23 ==
    Analysed =>
        \A k \in 1..Len(files) :
            \A r \in 1..Len(PositionsOf(files[k])) :
                Len(routes[PositionsOf(files[k])[r]].responses)
                  = CountOnItselfOfRegistration(RegistrationsOf(files[k])[r])

(***************************************************************************)
(* The validation schema of the request body.                              *)
(***************************************************************************)
\* e is the builder call z.<name>(...)
IsBuilder(e, name) ==
    /\ e.kind = "Call"
    /\ e.kids[1].kind = "PropAccess"
    /\ e.kids[1].kids[1].kind = "Ident" /\ e.kids[1].kids[1].text = "z"
    /\ e.kids[1].kids[2].text = name

\* e is <inner>.optional()
IsWrappedOptional(e) ==
    /\ e.kind = "Call"
    /\ e.kids[1].kind = "PropAccess"
    /\ e.kids[1].kids[2].text = "optional"

\* e without the .optional() calls around it
RECURSIVE WithoutOptional(_)
WithoutOptional(e) == IF IsWrappedOptional(e) THEN WithoutOptional(e.kids[1].kids[1]) ELSE e

\* the members of an object literal that are named by an identifier
IdentMembers(lit) ==
    SelectSeq(lit.kids, LAMBDA m : m.kind = "PropAssign" /\ m.kids[1].kind = "Ident")

UnparsedLeaf == [NoSchema EXCEPT !.description = <<"Unparsed Zod schema">>]

RECURSIVE BuilderSchema(_)
RECURSIVE LiteralSchema(_)
\* the schema a member's builder expression e stands for
BuilderSchema(e) ==
    CASE IsBuilder(WithoutOptional(e), "string") -> [NoSchema EXCEPT !.type = "string"]
      [] IsBuilder(WithoutOptional(e), "number") -> [NoSchema EXCEPT !.type = "number"]
      [] IsBuilder(WithoutOptional(e), "boolean") -> [NoSchema EXCEPT !.type = "boolean"]
      [] IsBuilder(WithoutOptional(e), "array") ->
           [NoSchema EXCEPT !.type = "array",
                            !.items = <<IF Len(WithoutOptional(e).kids) > 1
                                        THEN BuilderSchema(WithoutOptional(e).kids[2])
                                        ELSE NoSchema>>]
      [] IsBuilder(WithoutOptional(e), "object") ->
           IF Len(WithoutOptional(e).kids) > 1 /\ WithoutOptional(e).kids[2].kind = "ObjLit"
           THEN LiteralSchema(WithoutOptional(e).kids[2])
           ELSE NoSchema
      [] OTHER -> UnparsedLeaf

\* the members ms as properties, and the names of those not wrapped in .optional()
MemberProperties(ms) ==
    [i \in 1..Len(ms) |-> [name |-> ms[i].kids[1].val, value |-> BuilderSchema(ms[i].kids[2])]]
MemberRequired(ms) ==
    [i \in 1..Len(SelectSeq(ms, LAMBDA m : ~IsWrappedOptional(m.kids[2]))) |->
        SelectSeq(ms, LAMBDA m : ~IsWrappedOptional(m.kids[2]))[i].kids[1].val]

\* the object schema the literal lit of z.object(lit) stands for
LiteralSchema(lit) ==
    [NoSchema EXCEPT !.type = "object", !.hasProperties = TRUE,
                     !.properties = MemberProperties(IdentMembers(lit)),
                     !.required = MemberRequired(IdentMembers(lit))]

\* e is <p>.req.json(), or any <x>.req.json() without a parameter name
IsJsonRead(e, paramName) ==
    /\ e.kind = "Call"
    /\ e.kids[1].kind = "PropAccess"
    /\ e.kids[1].kids[2].text = "json"
    /\ stripParensAndCasts(e.kids[1].kids[1]).kind = "PropAccess"
    /\ stripParensAndCasts(e.kids[1].kids[1]).kids[2].text = "req"
    /\ \/ paramName = <<>>
       \/ /\ stripParensAndCasts(stripParensAndCasts(e.kids[1].kids[1]).kids[1]).kind = "Ident"
          /\ stripParensAndCasts(stripParensAndCasts(e.kids[1].kids[1]).kids[1]).text
               = paramName[1]

\* n is <schemaVar>.parse(await <p>.req.json()) with schemaVar initialised by
\* z.object({...})
IsParseOfLiteral(n, paramName) ==
    /\ n.kind = "Call"
    /\ n.kids[1].kind = "PropAccess"
    /\ n.kids[1].kids[2].text = "parse"
    /\ n.kids[1].kids[1].kind = "Ident"
    /\ n.kids[1].kids[1].init # <<>>
    /\ IsBuilder(n.kids[1].kids[1].init[1], "object")
    /\ Len(n.kids[1].kids[1].init[1].kids) > 1
    /\ n.kids[1].kids[1].init[1].kids[2].kind = "ObjLit"
    /\ Len(n.kids) > 1
    /\ n.kids[2].kind = "Await"
    /\ IsJsonRead(n.kids[2].kids[1], paramName)

\* n declares a variable initialised by <p>.req.json() or by awaiting it
IsJsonDecl(n, paramName) ==
    /\ n.kind = "VarDecl"
    /\ Len(n.kids) > 1
    /\ \/ IsJsonRead(stripParensAndCasts(n.kids[Len(n.kids)]), paramName)
       \/ /\ stripParensAndCasts(n.kids[Len(n.kids)]).kind = "Await"
          /\ IsJsonRead(stripParensAndCasts(n.kids[Len(n.kids)]).kids[1], paramName)

\* the validating calls and the json declarations in the handler of reg
ParseCallsOf(reg) ==
    IF HandlerBody(ArgAt(reg, 2)) = <<>> THEN <<>>
    ELSE SelectSeq(Below(HandlerBody(ArgAt(reg, 2))[1]),
                   LAMBDA n : IsParseOfLiteral(n, ParamNameOf(reg)))
JsonDeclsOf(reg) ==
    IF HandlerBody(ArgAt(reg, 2)) = <<>> THEN <<>>
    ELSE SelectSeq(Below(HandlerBody(ArgAt(reg, 2))[1]),
                   LAMBDA n : IsJsonDecl(n, ParamNameOf(reg)))

\* the literal of the z.object({...}) the first validating call of reg validates with
LiteralOf(reg) == ParseCallsOf(reg)[1].kids[1].kids[1].init[1].kids[2]

IsQueryRead(e, paramName) ==
    /\ e.kind = "Call"
    /\ e.kids[1].kind = "PropAccess"
    /\ e.kids[1].kids[2].text = "query"
    /\ stripParensAndCasts(e.kids[1].kids[1]).kind = "PropAccess"
    /\ stripParensAndCasts(e.kids[1].kids[1]).kids[2].text = "req"
    /\ \/ paramName = <<>>
       \/ /\ stripParensAndCasts(stripParensAndCasts(e.kids[1].kids[1]).kids[1]).kind = "Ident"
          /\ stripParensAndCasts(stripParensAndCasts(e.kids[1].kids[1]).kids[1]).text
               = paramName[1]

\* n is <p>.req.query('<literal>')
IsLiteralQuery(n, paramName) ==
    IsQueryRead(n, paramName) /\ Len(n.kids) > 1 /\ n.kids[2].kind = "StringLit"

\* n declares a variable with a type annotation, initialised by <p>.req.query(...)
\* or by awaiting it, and the annotated type has an object-shaped schema
IsTypedQueryDecl(n, paramName) ==
    /\ n.kind = "VarDecl"
    /\ Len(n.kids) = 3
    /\ n.kids[2].kind = "TypeNode"
    /\ \/ IsQueryRead(stripParensAndCasts(n.kids[3]), paramName)
       \/ /\ stripParensAndCasts(n.kids[3]).kind = "Await"
          /\ IsQueryRead(stripParensAndCasts(n.kids[3]).kids[1], paramName)
    /\ typeToSchema(n.kids[2].ty).type = "object"
    /\ typeToSchema(n.kids[2].ty).hasProperties

\* the literal query calls and the typed query declarations in the handler of reg
LiteralQueriesOf(reg) ==
    IF HandlerBody(ArgAt(reg, 2)) = <<>> THEN <<>>
    ELSE SelectSeq(Below(HandlerBody(ArgAt(reg, 2))[1]),
                   LAMBDA n : IsLiteralQuery(n, ParamNameOf(reg)))
TypedQueriesOf(reg) ==
    IF HandlerBody(ArgAt(reg, 2)) = <<>> THEN <<>>
    ELSE SelectSeq(Below(HandlerBody(ArgAt(reg, 2))[1]),
                   LAMBDA n : IsTypedQueryDecl(n, ParamNameOf(reg)))

\* the names asked for by literal, the names of the annotated types'
\* properties and the names these types require
LiteralNames(reg) == {LiteralQueriesOf(reg)[j].kids[2].val : j \in 1..Len(LiteralQueriesOf(reg))}
NamesOfSchema(schema) == {schema.properties[j].name : j \in 1..Len(schema.properties)}
RequiredOfSchema(schema) == {schema.required[j] : j \in 1..Len(schema.required)}
TypedNames(reg) ==
    UNION {NamesOfSchema(typeToSchema(TypedQueriesOf(reg)[j].kids[2].ty)) :
              j \in 1..Len(TypedQueriesOf(reg))}
TypedRequired(reg) ==
    UNION {RequiredOfSchema(typeToSchema(TypedQueriesOf(reg)[j].kids[2].ty)) :
              j \in 1..Len(TypedQueriesOf(reg))}

\* the query schema q (optional) is the accumulated map of registration reg
IsQueryMapOf(q, reg) ==
    IF LiteralNames(reg) \cup TypedNames(reg) = {} THEN q = <<>>
    ELSE /\ q # <<>>
         /\ NamesOfSchema(q[1]) = LiteralNames(reg) \cup TypedNames(reg)
         /\ RequiredOfSchema(q[1]) = TypedRequired(reg)
         /\ \A j \in 1..Len(q[1].properties) :
                q[1].properties[j].name \notin TypedNames(reg) =>
                    q[1].properties[j].value = [NoSchema EXCEPT !.type = "string"]

\* the 'in: query' parameters of an operation
QueryParameters(op) == SelectSeq(op.parameters, LAMBDA prm : prm["in"] = "query")

\* the parameters are, one for one, the properties of the query schema q (optional)
AreParametersOf(params, q) ==
    IF q = <<>> THEN params = <<>>
    ELSE /\ Len(params) = Len(q[1].properties)
         /\ \A j \in 1..Len(params) :
                /\ params[j].name = q[1].properties[j].name
                /\ params[j].schema = q[1].properties[j].value
                /\ params[j].required <=> (params[j].name \in RequiredOfSchema(q[1]))

\* C25: the record's query schema holds the names asked for with
\* ctx.req.query('<literal>') and the properties of the types annotated on
\* ctx.req.query() declarations, requires what those types require, and has
\* the string schema for a name that comes from literal calls alone; every
\* property of it is exactly one 'in: query' parameter of the operation,
\* required iff its name is in the required set
InvC25 ==
    /\ Analysed =>
          \A k \in 1..Len(files) :
              \A r \in 1..Len(PositionsOf(files[k])) :
                  IsQueryMapOf(routes[PositionsOf(files[k])[r]].querySchema,
                               RegistrationsOf(files[k])[r])
    /\ Assembled =>
          \A i \in 1..Len(routes) :
              IsLast(i) => AreParametersOf(QueryParameters(OperationOf(i)),
                                           routes[i].querySchema)

\* '/search': page is required (typed), size is not (optional in the type),
\* sort comes from a literal call alone; '/find': q alone, a string, not required
WitnessC25 ==
    /\ pc = "done"
    /\ \E i \in 1..Len(routes) :
           /\ routes[i].path = lSearch /\ IsLast(i)
           /\ [j \in 1..Len(QueryParameters(OperationOf(i))) |->
                 <<QueryParameters(OperationOf(i))[j].name,
                   QueryParameters(OperationOf(i))[j].required>>]
                = <<<<sPage, TRUE>>, <<sSize, FALSE>>, <<sSort, FALSE>>>>
           /\ QueryParameters(OperationOf(i))[3].schema.type = "string"
    /\ \E i \in 1..Len(routes) :
           /\ routes[i].path = lFind /\ IsLast(i)
           /\ Len(QueryParameters(OperationOf(i))) = 1
           /\ QueryParameters(OperationOf(i))[1].name = sQ
           /\ ~QueryParameters(OperationOf(i))[1].required

(***************************************************************************)
(* Path parameters and placeholders.                                       *)
(***************************************************************************)
\* the names between an opening brace and the next closing brace of key k
PlaceholdersOf(k) ==
    {SubSeq(k, a + 1, b - 1) :
        <<a, b>> \in {ab \in (1..Len(k)) \X (1..Len(k)) :
                         /\ ab[1] < ab[2]
                         /\ k[ab[1]] = "{" /\ k[ab[2]] = "}"
                         /\ \A m \in (ab[1] + 1)..(ab[2] - 1) : k[m] \notin {"{", "}"}}}

\* the 'in: path' parameters of an operation
PathParameters(op) == SelectSeq(op.parameters, LAMBDA prm : prm["in"] = "path")

\* C26: in a document of analyzeToOpenAPI, whatever the configuration, the
\* 'in: path' parameters of every operation are required and string-typed
\* and their names are exactly the '{name}' placeholders of the operation's
\* path key
ClaimC26 ==
    pc = "done" =>
        \A i \in 1..Len(routes) :
            IsLast(i) =>
                /\ \A j \in 1..Len(PathParameters(OperationOf(i))) :
                       /\ PathParameters(OperationOf(i))[j].required
                       /\ PathParameters(OperationOf(i))[j].schema
                            = [NoSchema EXCEPT !.type = "string"]
                /\ {PathParameters(OperationOf(i))[j].name :
                       j \in 1..Len(PathParameters(OperationOf(i)))}
                     = PlaceholdersOf(toOpenApiPath(routes[i].path))

(***************************************************************************)
(* What path composition leaves alone.                                     *)
(***************************************************************************)
\* record rec is record orig but for its path and its middleware scopes
SameButPath(rec, orig) ==
    /\ rec.method = orig.method
    /\ rec.pathParams = orig.pathParams
    /\ rec.responseTypeText = orig.responseTypeText
    /\ rec.responseSchema = orig.responseSchema
    /\ rec.requestBodySchema = orig.requestBodySchema
    /\ rec.querySchema = orig.querySchema
    /\ rec.responses = orig.responses

\* the records of routes at positions pos are the records rs that the
\* analysis of their file gave, one for one and in order, each the same but
\* for its path and, when Convention A is configured, its middleware scopes
FrameOfFile(pos, rs) ==
    /\ Len(pos) = Len(rs)
    /\ \A r \in 1..Len(pos) :
           /\ SameButPath(routes[pos[r]], rs[r])
           /\ raw[pos[r]].path = rs[r].path
           /\ cfg.autoroutesRoot = <<>> =>
                  routes[pos[r]].middlewareScopes = rs[r].middlewareScopes

\* the position of file f in files
FileIndex(f) == CHOOSE k \in 1..Len(files) : files[k] = f

\* C27: after Convention A and Convention B were applied, the records of
\* every file are those its analysis gave, as many and in the same order,
\* with method, pathParams, responseTypeText, responseSchema,
\* requestBodySchema, querySchema and responses unchanged, and
\* middlewareScopes unchanged unless Convention A is configured; the records
\* of the files follow each other in the order of the files
InvC27 ==
    Analysed =>
        /\ \A k \in 1..Len(files) :
               FrameOfFile(PositionsOf(files[k]), analyzeSource(SourceOf(files[k])))
        /\ \A i \in 1..Len(raw) :
               \A j \in i..Len(raw) : FileIndex(raw[i].file) <= FileIndex(raw[j].file)

\* with both conventions configured: a record of a route.ts with a new path
\* and middleware scopes, its responses kept, and the record of '/items'
\* with a new path, its request-body schema kept
WitnessC27 ==
    /\ Analysed
    /\ cfg.autoroutesRoot # <<>> /\ cfg.autorouterRoot # <<>>
    /\ \E i \in 1..Len(routes) :
           /\ routes[i].path # raw[i].path
           /\ routes[i].middlewareScopes # <<>> /\ routes[i].middlewareScopes[1] # <<>>
           /\ routes[i].responses # <<>>
    /\ \E i \in 1..Len(routes) :
           /\ raw[i].path = lItems /\ routes[i].path # lItems
           /\ routes[i].middlewareScopes = <<>>
           /\ routes[i].requestBodySchema # <<>>

(***************************************************************************)
(* src/docs.ts: mountDocs.  A request to the JSON endpoint runs its        *)
(* handler up to the await of resolveDoc() in one step (JavaScript runs a  *)
(* handler without interruption until it awaits); promises settle and the  *)
(* handlers resume in any order.  A promise is named by its position in    *)
(* builds; position 0 stands for a result that needs no promise of builds. *)
(***************************************************************************)
MaxRequests == 3
Requests == 1..MaxRequests

\* a request that has not arrived
NoRequest == [pc |-> "idle", promise |-> 0, saw |-> "none"]

\* mountDocs(app, opts): document is absent, a document or a function
InitDocs ==
    /\ IdleRun /\ fn = "mountDocs" /\ arg = <<>> /\ res = <<>>
    /\ opts \in [document : {"none", "object", "function"}, entries : BOOLEAN,
                 refreshOnRequest : BOOLEAN]
    /\ cachedDocPromise = <<>>
    /\ builds = <<>>
    /\ requests = [r \in Requests |-> NoRequest]

\* builds after a call of kind "document" (opts.document()) or "entries"
\* (buildFromEntries) returned its promise
Started(kind) == Append(builds, [kind |-> kind, state |-> "pending"])

\* the handler of request r awaits promise p
Suspend(r, p) ==
    requests' = [requests EXCEPT ![r] = [pc |-> "awaiting", promise |-> p, saw |-> "none"]]

\* a variant that takes the promise of a new build every time
EnsureCached_Fresh(cached, next) == <<next>>

\* if (!cachedDocPromise) cachedDocPromise = buildFromEntries(...): the value
\* of cachedDocPromise afterwards, next being the promise of a new build
EnsureCached(cached, next) == IF cached = <<>> THEN <<next>> ELSE cached

\* resolveDoc() as called for request r, up to its await
resolveDoc(r) ==
    IF opts.document = "function"
    THEN /\ builds' = Started("document")
         /\ Suspend(r, Len(builds) + 1)
         /\ UNCHANGED cachedDocPromise
    ELSE IF opts.document = "object"
    THEN Suspend(r, 0) /\ UNCHANGED <<builds, cachedDocPromise>>
    ELSE IF opts.entries
    THEN IF opts.refreshOnRequest
         THEN /\ builds' = Started("entries")
              /\ Suspend(r, Len(builds) + 1)
              /\ UNCHANGED cachedDocPromise
         ELSE /\ cachedDocPromise' = EnsureCached(cachedDocPromise, Len(builds) + 1)
              /\ builds' = IF cachedDocPromise'[1] > Len(builds) THEN Started("entries")
                           ELSE builds
              /\ Suspend(r, cachedDocPromise'[1])
    ELSE Suspend(r, 0) /\ UNCHANGED <<builds, cachedDocPromise>>

\* app.get(jsonPath, async (c) => { const doc = await resolveDoc() ...
GetJson(r) ==
    /\ fn = "mountDocs"
    /\ requests[r].pc = "idle"
    /\ resolveDoc(r)
    /\ UNCHANGED <<pc, cfg, fsys, files, raw, routes, doc, fn, arg, res, opts>>

\* promise b settles: the document was built, or the call threw (no file
\* matched, a file could not be read)
Settle(b) ==
    /\ fn = "mountDocs"
    /\ builds[b].state = "pending"
    /\ \E s \in {"fulfilled", "rejected"} : builds' = [builds EXCEPT ![b].state = s]
    /\ UNCHANGED <<pc, cfg, fsys, files, raw, routes, doc, fn, arg, res, opts,
                   cachedDocPromise, requests>>

\* what the handler sees when its await is over: a document, or the error
\* thrown (without a promise: opts.document itself, or resolveDoc's own throw)
Outcome(p) ==
    IF p = 0 THEN IF opts.document = "object" THEN "fulfilled" ELSE "rejected"
    ELSE builds[p].state

\* ... return c.json(doc) }): the handler of request r resumes
Respond(r) ==
    /\ fn = "mountDocs"
    /\ requests[r].pc = "awaiting"
    /\ Outcome(requests[r].promise) # "pending"
    /\ requests' = [requests EXCEPT ![r].pc = "done",
                                    ![r].saw = Outcome(requests[r].promise)]
    /\ UNCHANGED <<pc, cfg, fsys, files, raw, routes, doc, fn, arg, res, opts,
                   cachedDocPromise, builds>>

NextDocs ==
    \/ \E r \in Requests : GetJson(r)
    \/ \E b \in 1..Len(builds) : Settle(b)
    \/ \E r \in Requests : Respond(r)

SpecDocs == InitDocs /\ [][NextDocs]_vars

\* the options of the claim: entries set, no document
CachingRun == opts.entries /\ opts.document = "none" /\ ~opts.refreshOnRequest
RefreshRun == opts.entries /\ opts.document = "none" /\ opts.refreshOnRequest
Arrived == {r \in Requests : requests[r].pc # "idle"}

\* C28: with entries set, no document and refreshOnRequest false, at most
\* one build is ever started, every request that arrived awaits that build,
\* also one that arrived while it was pending, and every request that was
\* answered saw that build's outcome, document or error; with
\* refreshOnRequest true there are as many builds as requests that arrived
\* and each request awaits a build of its own
InvC28 ==
    /\ CachingRun =>
          /\ Len(builds) <= 1
          /\ \A r \in Arrived :
                 /\ Len(builds) = 1 /\ requests[r].promise = 1
                 /\ cachedDocPromise = <<1>>
                 /\ requests[r].pc = "done" =>
                        /\ builds[1].state # "pending"
                        /\ requests[r].saw = builds[1].state
    /\ RefreshRun =>
          /\ Len(builds) = Cardinality(Arrived)
          /\ \A r \in Arrived :
                 /\ requests[r].promise \in 1..Len(builds)
                 /\ \A q \in Arrived : q # r => requests[q].promise # requests[r].promise
                 /\ requests[r].pc = "done" =>
                        requests[r].saw = builds[requests[r].promise].state

\* one build that failed, two requests answered with its error and a third
\* one, which arrived too, waiting for the same build
WitnessC28 ==
    /\ fn = "mountDocs" /\ CachingRun
    /\ builds = <<[kind |-> "entries", state |-> "rejected"]>>
    /\ requests[1].pc = "done" /\ requests[1].saw = "rejected"
    /\ requests[2].pc = "done" /\ requests[2].saw = "rejected"
    /\ requests[3].pc = "awaiting" /\ requests[3].promise = 1

====
